---- MODULE Spec2Model ----
(***************************************************************************)
(* Model of the alert evaluation engine of the crypto price alert bot:     *)
(* the cron-driven tick (AlertService.checkPriceChanges), the trigger      *)
(* decision (shouldTriggerAlert), the firing (triggerAlert) and the        *)
(* SQLite-backed store (DatabaseService) they read and write.              *)
(*                                                                         *)
(* Time is counted in minutes since the epoch day 0, 00:00 UTC.  Prices    *)
(* and thresholds are integers; a percentage change is kept as the exact   *)
(* fraction <<numerator, denominator>> so that the comparison with the     *)
(* threshold is the comparison the arithmetic of the source makes.         *)
(***************************************************************************)
EXTENDS Integers, Sequences, FiniteSets, TLC

(***************************************************************************)
(* Configuration (EnvSchema) and the bounds of the model.                  *)
(***************************************************************************)
\* ALERT_COOLDOWN_MINUTES: any number >= 1 is accepted; the least one keeps
\* the runs short.
ALERT_COOLDOWN_MINUTES == 1
\* PRICE_CHECK_INTERVAL_MINUTES: any number >= 1 is accepted.
PRICE_CHECK_INTERVAL_MINUTES == 1
MinutesPerDay == 24 * 60

\* Number of cron firings explored.
MaxTicks == 3
\* Number of environment failures (store, price source, Telegram) explored.
MaxFaults == 1

\* Two task instances are enough to show every overlap of two runs.
Slots == {1, 2}

\* The process may be started at any time of day: at noon, and in the last
\* minute before midnight UTC.
StartTimes == {12 * 60, MinutesPerDay - 1}

PriceDomain ==
  [c \in {"btc", "eth"} |-> IF c = "btc" THEN {92, 95, 100} ELSE {50}]

NoPrice == 0

\* what the alert_config_id of a deleted row of alert_logs reads as
DeletedRow == 0

VARIABLES
  now,           \* the wall clock, in minutes
  lastFire,      \* the last minute at which the cron task was fired
  users,         \* table users: set of [id, telegramId]
  alerts,        \* table alert_configs: id -> row
  priceHistory,  \* table price_history: sequence of rows, in rowid order
  alertLogs,     \* table alert_logs: sequence of rows, in rowid order
  sent,          \* calls of bot.api.sendMessage, in call order
  errors,        \* what logger.error / logger.warn recorded
  tk,            \* the runs of checkPriceChanges in flight, per slot
  running,       \* the slot whose continuation holds the event loop, or 0
  nTicks,        \* cron firings so far
  nFaults,       \* environment failures so far
  proc,          \* the process: scheduled task, bot, store handle, handlers
  cryptocurrencies,   \* table cryptocurrencies: the ids of its rows
  session,            \* ctx.session of each chat
  upd,                \* the updates in the middleware, per slot
  userCommandCounts,  \* TelegramBotService.userCommandCounts
  coinsCache,         \* CryptoService.coinsCache and cacheExpiry, and the
                      \* list that GET /coins/list answers with
  part,               \* the wall clock within the minute, in parts of one
  handled             \* per sender, the instants at which the middleware
                      \* called next()

\* the state of the Telegram side
bot == <<cryptocurrencies, session, upd, userCommandCounts, coinsCache, part,
         handled>>

vars == <<now, lastFire, users, alerts, priceHistory, alertLogs, sent, errors,
          tk, running, nTicks, nFaults, proc, bot>>

(***************************************************************************)
(* Timestamps as the store holds them.  A stored timestamp is a string;    *)
(* the model keeps the three parts that decide a string comparison: the    *)
(* date, the character after the date, and the time of day.                *)
(***************************************************************************)
\* the character code of ' ' in 'YYYY-MM-DD HH:MM:SS'
SepSpace == 32
\* the character code of 'T' in 'YYYY-MM-DDTHH:MM:SS.sssZ'
SepT == 84

\* Date.prototype.toISOString()
toISOString(t) == <<t \div MinutesPerDay, SepT, t % MinutesPerDay>>

\* SQLite datetime('now', '-N minutes') and CURRENT_TIMESTAMP
datetime(t, minusMinutes) ==
  <<(t - minusMinutes) \div MinutesPerDay, SepSpace,
    (t - minusMinutes) % MinutesPerDay>>

CURRENT_TIMESTAMP(t) == datetime(t, 0)

\* SQLite's >= on two TEXT values: byte-wise, left to right
TextGE(a, b) ==
  \/ a[1] > b[1]
  \/ a[1] = b[1] /\ a[2] > b[2]
  \/ a[1] = b[1] /\ a[2] = b[2] /\ a[3] >= b[3]

\* new Date(row.timestamp): the instant a stored string stands for
ParseDate(s) == s[1] * MinutesPerDay + s[3]

(***************************************************************************)
(* DatabaseService                                                         *)
(***************************************************************************)
SeqToSet(s) == {s[i] : i \in 1..Len(s)}

\* the query without its WHERE clause: every alert
getAllAlerts(tbl) == DOMAIN tbl

getAllActiveAlerts(tbl) == {id \in DOMAIN tbl : tbl[id].isActive}

\* the lookup without its WHERE clause: any row of users
getUserAny(tbl, telegramId) == tbl

getUserByTelegramId(tbl, telegramId) == {u \in tbl : u.telegramId = telegramId}

\* the next rowid of a table with AUTOINCREMENT, given the rowids in use
NextId(ids) == IF ids = {} THEN 1 ELSE (CHOOSE i \in ids : \A j \in ids : i >= j) + 1

\* a users table without the constraint: any insert goes through
NotUnique(tbl, telegramId) == TRUE

\* telegram_id INTEGER UNIQUE NOT NULL: an insert of a telegram id that a row
\* already holds is refused
Unique(tbl, telegramId) == \A u \in tbl : u.telegramId # telegramId

\* createUser: INSERT INTO users (telegram_id, username) ... RETURNING *
createUser(tbl, telegramId, username) ==
  tbl \cup {[id |-> NextId({u.id : u \in tbl}), telegramId |-> telegramId,
             username |-> username]}

\* FOREIGN KEY (user_id) REFERENCES users (id), FOREIGN KEY (crypto_id)
\* REFERENCES cryptocurrencies (id): an insert into alert_configs that
\* refers to no row of either table is refused
ForeignKeysHold(tblUsers, tblCryptocurrencies, alert) ==
  /\ \E u \in tblUsers : u.id = alert.userId
  /\ alert.cryptoId \in tblCryptocurrencies

\* createAlert: INSERT INTO alert_configs ... RETURNING *
createAlert(tbl, alert) ==
  LET id == NextId(DOMAIN tbl)
  IN [i \in DOMAIN tbl \cup {id} |->
        IF i = id
        THEN [id |-> id, userId |-> alert.userId, cryptoId |-> alert.cryptoId,
              thresholdPercentage |-> alert.thresholdPercentage,
              timeframeMinutes |-> alert.timeframeMinutes,
              isActive |-> alert.isActive]
        ELSE tbl[i]]

\* getAlertsByUserId: SELECT * FROM alert_configs WHERE user_id = ?
getAlertsByUserId(tbl, userId) ==
  {tbl[i] : i \in {j \in DOMAIN tbl : tbl[j].userId = userId}}

\* INSERT OR REPLACE keyed by the asset: the sample of an asset overwrites
\* the one stored before
savePriceHistoryReplace(tbl, cryptoId, price, t) ==
  IF \E n \in 1..Len(tbl) : tbl[n].cryptoId = cryptoId
  THEN [n \in 1..Len(tbl) |->
          IF tbl[n].cryptoId = cryptoId
          THEN [tbl[n] EXCEPT !.price = price, !.timestamp = CURRENT_TIMESTAMP(t)]
          ELSE tbl[n]]
  ELSE Append(tbl, [id |-> Len(tbl) + 1, cryptoId |-> cryptoId, price |-> price,
                    timestamp |-> CURRENT_TIMESTAMP(t)])

\* the insert run once for every alert that watches the asset
savePriceHistoryPerAlert(tbl, cryptoId, price, t) ==
  LET row == [id |-> Len(tbl) + 1, cryptoId |-> cryptoId, price |-> price,
              timestamp |-> CURRENT_TIMESTAMP(t)]
  IN IF cryptoId = "btc"
     THEN Append(Append(tbl, row), [row EXCEPT !.id = Len(tbl) + 2])
     ELSE Append(tbl, row)

savePriceHistory(tbl, cryptoId, price, t) ==
  Append(tbl, [id |-> Len(tbl) + 1, cryptoId |-> cryptoId, price |-> price,
               timestamp |-> CURRENT_TIMESTAMP(t)])

\* the query without its window: every sample of the asset
getPriceHistoryAll(tbl, cryptoId, timeframeMinutes, t) ==
  {r \in SeqToSet(tbl) : r.cryptoId = cryptoId}

\* the rows getPriceHistory selects
getPriceHistory(tbl, cryptoId, timeframeMinutes, t) ==
  {r \in SeqToSet(tbl) :
     /\ r.cryptoId = cryptoId
     /\ TextGE(r.timestamp, datetime(t, timeframeMinutes))}

\* priceHistory[0]: a row with the greatest timestamp
NewestRows(rows) ==
  {r \in rows : \A q \in rows : TextGE(r.timestamp, q.timestamp)}

\* priceHistory[priceHistory.length - 1] under ORDER BY timestamp DESC: a row
\* with the least timestamp; rows with equal timestamps come in no fixed order
OldestRows(rows) ==
  {r \in rows : \A q \in rows : TextGE(q.timestamp, r.timestamp)}

\* updateAlert(id, { isActive }): UPDATE alert_configs SET is_active = ?
updateAlert(tbl, id, isActive) ==
  IF id \in DOMAIN tbl THEN [tbl EXCEPT ![id].isActive = isActive] ELSE tbl

\* deleteAlert: DELETE FROM alert_configs WHERE id = ?
deleteAlert(tbl, id) == [i \in DOMAIN tbl \ {id} |-> tbl[i]]

\* a delete that leaves the rows of alert_logs alone
OnDeleteNoAction(tbl, alertConfigId) == tbl

\* FOREIGN KEY (alert_config_id) ... ON DELETE CASCADE: the rows of alert_logs
\* of the alert go with it.  A deleted row keeps its place in the sequence,
\* since AUTOINCREMENT never hands out its rowid again, and refers to no
\* alert any more.
OnDeleteCascade(tbl, alertConfigId) ==
  [n \in 1..Len(tbl) |->
     IF tbl[n].alertConfigId = alertConfigId
     THEN [tbl[n] EXCEPT !.alertConfigId = DeletedRow]
     ELSE tbl[n]]

\* the insert that reports success and stores nothing
createAlertLogLost(tbl, log) == tbl

createAlertLog(tbl, log) ==
  Append(tbl, [id |-> Len(tbl) + 1,
               alertConfigId |-> log.alertConfigId,
               triggered_at |-> toISOString(log.triggeredAt),
               priceChange |-> log.priceChange,
               oldPrice |-> log.oldPrice,
               newPrice |-> log.newPrice,
               sent |-> log.sent,
               tick |-> log.tick])

\* the cooldown counted only from the entries marked as delivered
getRecentAlertLogsDelivered(tbl, alertConfigId, minutes, t) ==
  {l \in SeqToSet(tbl) :
     /\ l.alertConfigId = alertConfigId
     /\ l.sent
     /\ TextGE(l.triggered_at, datetime(t, minutes))}

\* the query with the comparison turned around: the rows before the cutoff
getRecentAlertLogsOlder(tbl, alertConfigId, minutes, t) ==
  {l \in SeqToSet(tbl) :
     /\ l.alertConfigId = alertConfigId
     /\ TextGE(datetime(t, minutes), l.triggered_at)}

\* the cooldown shared by all alerts: the rows of any alert
getRecentAlertLogsAnyAlert(tbl, alertConfigId, minutes, t) ==
  {l \in SeqToSet(tbl) : TextGE(l.triggered_at, datetime(t, minutes))}

\* the rows getRecentAlertLogs selects
getRecentAlertLogs(tbl, alertConfigId, minutes, t) ==
  {l \in SeqToSet(tbl) :
     /\ l.alertConfigId = alertConfigId
     /\ TextGE(l.triggered_at, datetime(t, minutes))}

(***************************************************************************)
(* AlertService: the arithmetic of the decision                            *)
(***************************************************************************)
\* ((currentPrice - oldPrice) / oldPrice) * 100, as an exact fraction
PriceChange(currentPrice, oldPrice) == <<(currentPrice - oldPrice) * 100, oldPrice>>

\* the comparison with the sign of the threshold lost
DropReachedUnsigned(pc, thresholdPercentage) ==
  pc[1] <= thresholdPercentage * pc[2]

\* priceChangePercent <= -thresholdPercentage.  Dividing by a zero oldPrice
\* gives Infinity, -Infinity or NaN: only -Infinity is <= the bound.
DropReached(pc, thresholdPercentage) ==
  IF pc[2] > 0 THEN pc[1] <= -thresholdPercentage * pc[2]
  ELSE pc[1] < 0

\* The ids of S in ascending order (rowid order of SELECT).
RECURSIVE Ascending(_)
Ascending(S) ==
  IF S = {} THEN <<>>
  ELSE LET m == CHOOSE i \in S : \A j \in S : i <= j
       IN <<m>> \o Ascending(S \ {m})

\* Group alerts by crypto (a Map keeps the order of first insertion), then
\* walk the groups: the order in which one run evaluates the alerts.
RECURSIVE GroupOrder(_, _)
GroupOrder(ids, tbl) ==
  IF ids = {} THEN <<>>
  ELSE LET first == CHOOSE i \in ids : \A j \in ids : i <= j
           grp == {i \in ids : tbl[i].cryptoId = tbl[first].cryptoId}
       IN [n \in 1..Cardinality(grp) |-> tbl[Ascending(grp)[n]]]
            \o GroupOrder(ids \ grp, tbl)

\* Array.from(alertsByCrypto.keys())
RECURSIVE CryptoIds(_)
CryptoIds(queue) ==
  IF queue = <<>> THEN <<>>
  ELSE LET c == Head(queue).cryptoId
       IN <<c>> \o CryptoIds(SelectSeq(Tail(queue), LAMBDA a : a.cryptoId # c))

\* an absent key read as the least price there is
PriceOfAbsentAsCrash(resp, cryptoId) ==
  IF \E j \in 1..Len(resp) : resp[j][1] = cryptoId
  THEN LET j == CHOOSE n \in 1..Len(resp) : resp[n][1] = cryptoId IN resp[j][2]
  ELSE 1

\* currentPrices.get(cryptoId); an absent key reads as undefined, and
\* undefined and 0 are both falsy in `if (!currentPrice)`
PriceOf(resp, cryptoId) ==
  IF \E j \in 1..Len(resp) : resp[j][1] = cryptoId
  THEN LET j == CHOOSE n \in 1..Len(resp) : resp[n][1] = cryptoId IN resp[j][2]
  ELSE NoPrice

(***************************************************************************)
(* CryptoService.getCurrentPrices: what the price source may answer for    *)
(* the requested ids: a price for each id, or the id left out.             *)
(***************************************************************************)
RECURSIVE Responses(_)
Responses(cs) ==
  IF cs = <<>> THEN {<<>>}
  ELSE LET rest == Responses(Tail(cs))
       IN {<<<<Head(cs), p>>>> \o r : p \in PriceDomain[Head(cs)], r \in rest}
            \cup rest

(***************************************************************************)
(* Text as the Telegram handlers read it.  A string is the sequence of its *)
(* characters.  The texts of the model are made of digits, '.', '-', '/'   *)
(* and the letters a, b, c, x, A, B.                                       *)
(***************************************************************************)
Digits == <<"0", "1", "2", "3", "4", "5", "6", "7", "8", "9">>
IsDigit(c) == \E d \in 1..Len(Digits) : Digits[d] = c
DigitValue(c) == (CHOOSE d \in 1..Len(Digits) : Digits[d] = c) - 1

\* the longest prefix of s made of digits
RECURSIVE LeadingDigits(_)
LeadingDigits(s) ==
  IF s = <<>> \/ ~IsDigit(Head(s)) THEN <<>>
  ELSE <<Head(s)>> \o LeadingDigits(Tail(s))

RECURSIVE DecimalValue(_)
DecimalValue(ds) ==
  IF ds = <<>> THEN 0
  ELSE DecimalValue(SubSeq(ds, 1, Len(ds) - 1)) * 10 + DigitValue(ds[Len(ds)])

RECURSIVE Pow10(_)
Pow10(n) == IF n = 0 THEN 1 ELSE 10 * Pow10(n - 1)

\* a number is the fraction <<numerator, denominator>>; NaN has no denominator
NaN == <<0, 0>>
isNaN(v) == v[2] = 0
Sign(s) == IF s # <<>> /\ Head(s) = "-" THEN -1 ELSE 1
Unsigned(s) == IF s # <<>> /\ Head(s) \in {"-", "+"} THEN Tail(s) ELSE s

\* parseInt(text): the sign and the leading digits; what follows is ignored
parseInt(text) ==
  LET ds == LeadingDigits(Unsigned(text))
  IN IF ds = <<>> THEN NaN ELSE <<Sign(text) * DecimalValue(ds), 1>>

\* parseFloat(text): the sign, the leading digits and the digits after a
\* '.'; what follows is ignored
parseFloat(text) ==
  LET body == Unsigned(text)
      ip == LeadingDigits(body)
      rest == SubSeq(body, Len(ip) + 1, Len(body))
      fp == IF rest # <<>> /\ Head(rest) = "." THEN LeadingDigits(Tail(rest))
            ELSE <<>>
  IN IF ip = <<>> /\ fp = <<>> THEN NaN
     ELSE <<Sign(text) * (DecimalValue(ip) * Pow10(Len(fp)) + DecimalValue(fp)),
            Pow10(Len(fp))>>

\* threshold < 0.1 || threshold > 100
ThresholdOutOfRange(v) == v[1] * 10 < v[2] \/ v[1] > 100 * v[2]
\* timeframe < 5 || timeframe > 1440
TimeframeOutOfRange(v) == v[1] < 5 * v[2] \/ v[1] > 1440 * v[2]

UpperCase == <<"A", "B">>
LowerCase == <<"a", "b">>
\* String.prototype.toLowerCase()
toLowerCase(s) ==
  [i \in 1..Len(s) |->
     IF \E j \in 1..Len(UpperCase) : UpperCase[j] = s[i]
     THEN LowerCase[CHOOSE j \in 1..Len(UpperCase) : UpperCase[j] = s[i]]
     ELSE s[i]]
\* String.prototype.includes(q)
includes(s, q) ==
  \E i \in 0..(Len(s) - Len(q)) : SubSeq(s, i + 1, i + Len(q)) = q

(***************************************************************************)
(* CryptoService.findCoinBySymbol over the list of supported coins         *)
(***************************************************************************)
\* null
NoCoin == [id |-> <<>>, symbol |-> <<>>, name |-> <<>>]

\* Array.prototype.find: the first index of a set of indices
First(S) == CHOOSE i \in S : \A j \in S : i <= j

\* the search by name and id before the search by symbol
findCoinByNameFirst(coins, symbol) ==
  LET normalizedSymbol == toLowerCase(symbol)
      exact == {i \in 1..Len(coins) :
                  toLowerCase(coins[i].symbol) = normalizedSymbol}
      partial == {i \in 1..Len(coins) :
                    \/ includes(toLowerCase(coins[i].name), normalizedSymbol)
                    \/ includes(toLowerCase(coins[i].id), normalizedSymbol)}
  IN IF partial # {} THEN coins[First(partial)]
     ELSE IF exact # {} THEN coins[First(exact)]
     ELSE NoCoin

findCoinBySymbol(coins, symbol) ==
  LET normalizedSymbol == toLowerCase(symbol)
      exact == {i \in 1..Len(coins) :
                  toLowerCase(coins[i].symbol) = normalizedSymbol}
      partial == {i \in 1..Len(coins) :
                    \/ includes(toLowerCase(coins[i].name), normalizedSymbol)
                    \/ includes(toLowerCase(coins[i].id), normalizedSymbol)}
  IN IF exact # {} THEN coins[First(exact)]
     ELSE IF partial # {} THEN coins[First(partial)]
     ELSE NoCoin

\* the coins the price source may list
CoinPool ==
  {[id |-> <<"a", "b">>, symbol |-> <<"a">>, name |-> <<"A", "b">>],
   [id |-> <<"b">>, symbol |-> <<"a", "b">>, name |-> <<"B">>],
   [id |-> <<"b", "a">>, symbol |-> <<"B">>, name |-> <<"b", "A">>]}

\* GET /coins/list: the pool or a part of it, in any order
RECURSIVE Orderings(_)
Orderings(S) ==
  IF S = {} THEN {<<>>}
  ELSE UNION {{<<c>> \o rest : rest \in Orderings(S \ {c})} : c \in S}
CoinLists == UNION {Orderings(S) : S \in SUBSET CoinPool}

(***************************************************************************)
(* TelegramBotService: sessions, updates, the rate limit                   *)
(***************************************************************************)
\* the users that write to the bot, by ctx.from.id
Senders == {5}
Usernames == {"neo", "trinity"}
\* two updates at a time are enough to show every overlap of two
UpdSlots == {1, 2}

\* MAX_COMMANDS_PER_MINUTE: any number >= 1 is accepted
MAX_COMMANDS_PER_MINUTE == 5

\* ctx.session.awaitingAlertConfig; the step "undefined" stands for undefined
NoConfig == [step |-> "undefined", crypto |-> <<>>, threshold |-> NaN]

IdleUpdate ==
  [pc |-> "idle", from |-> 0, username |-> "", kind |-> "", text |-> <<>>,
   found |-> FALSE]

\* what a user sends: the command /create or /cancel, or a text
TypedTexts ==
  {<<"5">>, <<"0", ".", "0", "5">>, <<"5", "x">>, <<"x">>,
   <<"1", "4", "4", "0", ".", "9">>, <<"4", ".", "9">>,
   <<"1", "4", "4", "1">>, <<"a">>, <<"b", "b">>}
Messages ==
  {[kind |-> "command", text |-> <<"/", "c">>],
   [kind |-> "command", text |-> <<"/", "x">>]}
    \cup {[kind |-> "text", text |-> t] : t \in TypedTexts}

\* the Telegram side before any update: no session, no update in the
\* middleware, no command counted, nothing cached
BotAtRest(cryptoIds, listed) ==
  /\ cryptocurrencies = cryptoIds
  /\ session = [c \in Senders |-> NoConfig]
  /\ upd = [u \in UpdSlots |-> IdleUpdate]
  /\ userCommandCounts = [c \in Senders |-> [count |-> 0, resetTime |-> 0]]
  /\ coinsCache = [coins |-> <<>>, cacheExpiry |-> 0, listed |-> listed]
  /\ part = 0
  /\ handled = [c \in Senders |-> <<>>]

(***************************************************************************)
(* The runs of checkPriceChanges                                           *)
(***************************************************************************)
\* the application up and running, as start() means to leave it: the bot
\* polls, the cron task is scheduled, the shutdown handlers are installed
Running ==
  [pc |-> "up", bot |-> "polling", cron |-> TRUE, handlers |-> TRUE,
   db |-> "open", alive |-> TRUE]

IdleSlot ==
  [pc |-> "idle", id |-> 0, queue |-> <<>>, i |-> 0, resp |-> <<>>,
   oldPrice |-> 0, priceChange |-> <<0, 1>>, logId |-> 0, sendIx |-> 0,
   late |-> FALSE, drift |-> FALSE]

Alert(s) == s.queue[s.i]

\* `*/n * * * *`: the minutes of the hour that n divides
CronMatchesEvery(n, t) == ((t % 60) % n) = 0
\* `*/${config.PRICE_CHECK_INTERVAL_MINUTES} * * * *`
CronMatches(t) == CronMatchesEvery(PRICE_CHECK_INTERVAL_MINUTES, t)

LogError(where, s, alertId) ==
  errors \cup {[where |-> where, tick |-> s.id, alert |-> alertId]}

\* the run after it is done with the alert at hand: the next alert of the
\* loop, or the end of checkPriceChanges
NextAlert(s) ==
  IF s.i < Len(s.queue)
  THEN [s EXCEPT !.pc = "eval", !.i = s.i + 1, !.oldPrice = 0,
                 !.priceChange = <<0, 1>>, !.logId = 0, !.sendIx = 0]
  ELSE IdleSlot

Continue(k, s) ==
  /\ tk' = [tk EXCEPT ![k] = NextAlert(s)]
  /\ running' = IF NextAlert(s).pc = "idle" THEN 0 ELSE k

\* The store outlives the process: the history is empty on the very first
\* start, and holds the samples of an earlier run's tick after a restart.
EarlierRun(t) ==
  savePriceHistory(savePriceHistory(<<>>, "btc", 100, t - 1), "eth", 50, t - 1)

Init ==
  /\ now \in StartTimes
  /\ lastFire = now - 1
  /\ users = {[id |-> 1, telegramId |-> 2, username |-> "u2"],
             [id |-> 2, telegramId |-> 7, username |-> "u7"]}
  /\ alerts =
       [id \in 1..3 |->
          [id |-> id,
           userId |-> IF id = 2 THEN 1 ELSE 2,
           cryptoId |-> IF id = 3 THEN "eth" ELSE "btc",
           thresholdPercentage |-> IF id = 1 THEN 3 ELSE IF id = 2 THEN 8 ELSE 5,
           timeframeMinutes |-> 5,
           isActive |-> TRUE]]
  /\ priceHistory \in {<<>>, EarlierRun(now)}
  /\ alertLogs = <<>>
  /\ sent = <<>>
  /\ errors = {}
  /\ tk = [s \in Slots |-> IdleSlot]
  /\ running = 0
  /\ nTicks = 0
  /\ nFaults = 0
  /\ proc = Running
  /\ BotAtRest({"btc", "eth"}, <<>>)

\* node-cron fires the task at every matching minute; the task is the async
\* callback, which runs up to its first network await: getAllActiveAlerts,
\* the grouping, and the call of getCurrentPrices.
CronFire(k) ==
  /\ running = 0
  /\ proc.cron
  /\ CronMatches(now) /\ lastFire # now
  /\ nTicks < MaxTicks
  /\ tk[k].pc = "idle"
  /\ \A j \in Slots : j < k => tk[j].pc # "idle"
  /\ lastFire' = now
  /\ nTicks' = nTicks + 1
  /\ LET active == getAllActiveAlerts(alerts)
     IN IF active = {}
        THEN UNCHANGED tk
        ELSE tk' = [tk EXCEPT ![k] =
                      [IdleSlot EXCEPT !.pc = "fetch", !.id = nTicks + 1,
                                       !.queue = GroupOrder(active, alerts)]]
  /\ UNCHANGED <<now, users, alerts, priceHistory, alertLogs, sent, errors,
                 running, nFaults>>
  /\ UNCHANGED <<proc, bot>>

\* the failed fetch logged and swallowed inside getCurrentPrices, which
\* answers with an empty Map instead of throwing
FetchFailsSwallowed(k) ==
  /\ running = 0
  /\ tk[k].pc = "fetch"
  /\ nFaults < MaxFaults
  /\ nFaults' = nFaults + 1
  /\ errors' = LogError("getCurrentPrices", tk[k], 0)
  /\ tk' = [tk EXCEPT ![k].pc = "save", ![k].resp = <<>>]
  /\ UNCHANGED <<now, lastFire, users, alerts, priceHistory, alertLogs, sent,
                 running, nTicks>>
  /\ UNCHANGED <<proc, bot>>

\* the request of getCurrentPrices fails (or its answer does not parse):
\* getCurrentPrices logs it and throws, the outer catch of checkPriceChanges
\* logs it again and the run is over
FetchFails(k) ==
  /\ running = 0
  /\ tk[k].pc = "fetch"
  /\ nFaults < MaxFaults
  /\ nFaults' = nFaults + 1
  /\ errors' = LogError("checkPriceChanges", tk[k], 0)
                  \cup {[where |-> "getCurrentPrices", tick |-> tk[k].id, alert |-> 0]}
  /\ tk' = [tk EXCEPT ![k] = IdleSlot]
  /\ UNCHANGED <<now, lastFire, users, alerts, priceHistory, alertLogs, sent,
                 running, nTicks>>
  /\ UNCHANGED <<proc, bot>>

\* getCurrentPrices returns a map; ids the source cannot price are left out
FetchReturns(k) ==
  /\ running = 0
  /\ tk[k].pc = "fetch"
  /\ \E resp \in Responses(CryptoIds(tk[k].queue)) :
       LET partial == Len(resp) < Len(CryptoIds(tk[k].queue))
       IN /\ partial => nFaults < MaxFaults
          /\ nFaults' = IF partial THEN nFaults + 1 ELSE nFaults
          /\ tk' = [tk EXCEPT ![k].pc = "save", ![k].resp = resp]
  /\ running' = k
  /\ UNCHANGED <<now, lastFire, users, alerts, priceHistory, alertLogs, sent,
                 errors, nTicks>>
  /\ UNCHANGED <<proc, bot>>

\* the first n entries of the response saved, in the order of the Map
RECURSIVE SaveEntries(_, _, _, _)
SaveEntries(tbl, resp, n, t) ==
  IF n = 0 THEN tbl
  ELSE savePriceHistory(SaveEntries(tbl, resp, n - 1, t),
                        resp[n][1], resp[n][2], t)

\* for (const [cryptoId, price] of currentPrices.entries()) savePriceHistory
SavePrices(k) ==
  /\ running = k
  /\ tk[k].pc = "save"
  /\ priceHistory' = SaveEntries(priceHistory, tk[k].resp, Len(tk[k].resp), now)
  /\ tk' = [tk EXCEPT ![k].pc = "eval", ![k].i = 1]
  /\ UNCHANGED <<now, lastFire, users, alerts, alertLogs, sent, errors,
                 running, nTicks, nFaults>>
  /\ UNCHANGED <<proc, bot>>

\* savePriceHistory throws at the j-th entry: nothing catches it inside the
\* loop, so the outer catch of checkPriceChanges ends the run
SaveFails(k) ==
  /\ running = k
  /\ tk[k].pc = "save"
  /\ nFaults < MaxFaults
  /\ \E j \in 1..Len(tk[k].resp) :
       priceHistory' = SaveEntries(priceHistory, tk[k].resp, j - 1, now)
  /\ nFaults' = nFaults + 1
  /\ errors' = LogError("checkPriceChanges", tk[k], 0)
  /\ tk' = [tk EXCEPT ![k] = IdleSlot]
  /\ running' = 0
  /\ UNCHANGED <<now, lastFire, users, alerts, alertLogs, sent, nTicks>>
  /\ UNCHANGED <<proc, bot>>

\* shouldTriggerAlert(alert, currentPrice) for the alert at hand: the cooldown
\* query, the history query, the comparison.  A group whose crypto has no
\* (or a zero) current price is passed over with a warning.
ShouldTrigger(k) ==
  /\ running = k
  /\ tk[k].pc = "eval"
  /\ LET a == Alert(tk[k])
         currentPrice == PriceOf(tk[k].resp, a.cryptoId)
         recentLogs == getRecentAlertLogs(alertLogs, a.id, ALERT_COOLDOWN_MINUTES, now)
         history == getPriceHistory(priceHistory, a.cryptoId, a.timeframeMinutes, now)
     IN IF currentPrice = NoPrice \/ recentLogs # {} \/ history = {}
        THEN Continue(k, tk[k])
        ELSE \E oldest \in OldestRows(history) :
               IF DropReached(PriceChange(currentPrice, oldest.price),
                              a.thresholdPercentage)
               THEN /\ tk' = [tk EXCEPT ![k].pc = "reread"]
                    /\ UNCHANGED running
               ELSE Continue(k, tk[k])
  /\ UNCHANGED <<now, lastFire, users, alerts, priceHistory, alertLogs, sent,
                 errors, nTicks, nFaults>>
  /\ UNCHANGED <<proc, bot>>

\* a store query of shouldTriggerAlert throws: its catch logs and returns false
ShouldTriggerFails(k) ==
  /\ running = k
  /\ tk[k].pc = "eval"
  /\ PriceOf(tk[k].resp, Alert(tk[k]).cryptoId) # NoPrice
  /\ nFaults < MaxFaults
  /\ nFaults' = nFaults + 1
  /\ errors' = LogError("shouldTriggerAlert", tk[k], Alert(tk[k]).id)
  /\ Continue(k, tk[k])
  /\ UNCHANGED <<now, lastFire, users, alerts, priceHistory, alertLogs, sent,
                 nTicks>>
  /\ UNCHANGED <<proc, bot>>

\* checkPriceChanges reads the history again and computes what it hands to
\* triggerAlert
Reread(k) ==
  /\ running = k
  /\ tk[k].pc = "reread"
  /\ LET a == Alert(tk[k])
         currentPrice == PriceOf(tk[k].resp, a.cryptoId)
         history == getPriceHistory(priceHistory, a.cryptoId, a.timeframeMinutes, now)
     IN IF history = {}
        THEN Continue(k, tk[k])
        ELSE \E oldest \in OldestRows(history) :
               /\ tk' = [tk EXCEPT ![k].pc = "log",
                                   ![k].oldPrice = oldest.price,
                                   ![k].priceChange =
                                      PriceChange(currentPrice, oldest.price)]
               /\ UNCHANGED running
  /\ UNCHANGED <<now, lastFire, users, alerts, priceHistory, alertLogs, sent,
                 errors, nTicks, nFaults>>
  /\ UNCHANGED <<proc, bot>>

\* the second getPriceHistory throws: the catch around the alert logs it
RereadFails(k) ==
  /\ running = k
  /\ tk[k].pc = "reread"
  /\ nFaults < MaxFaults
  /\ nFaults' = nFaults + 1
  /\ errors' = LogError("checkAlert", tk[k], Alert(tk[k]).id)
  /\ Continue(k, tk[k])
  /\ UNCHANGED <<now, lastFire, users, alerts, priceHistory, alertLogs, sent,
                 nTicks>>
  /\ UNCHANGED <<proc, bot>>

\* triggerAlert: createAlertLog with sent = false, then the call of
\* getCoinInfo, whose coin list may have to come from the network
CreateLog(k) ==
  /\ running = k
  /\ tk[k].pc = "log"
  /\ Alert(tk[k]).id \in DOMAIN alerts
  /\ alertLogs' = createAlertLog(alertLogs,
                    [alertConfigId |-> Alert(tk[k]).id,
                     triggeredAt |-> now,
                     priceChange |-> tk[k].priceChange,
                     oldPrice |-> tk[k].oldPrice,
                     newPrice |-> PriceOf(tk[k].resp, Alert(tk[k]).cryptoId),
                     sent |-> FALSE,
                     tick |-> tk[k].id])
  /\ tk' = [tk EXCEPT ![k].pc = "coin", ![k].logId = Len(alertLogs) + 1]
  /\ running' = 0
  /\ UNCHANGED <<now, lastFire, users, alerts, priceHistory, sent, errors,
                 nTicks, nFaults>>
  /\ UNCHANGED <<proc, bot>>

\* createAlertLog for an alert deleted since the run loaded it: the insert
\* fails on FOREIGN KEY (alert_config_id) and throws; the catch of
\* triggerAlert logs it, nothing is sent
CreateLogOrphan(k) ==
  /\ running = k
  /\ tk[k].pc = "log"
  /\ Alert(tk[k]).id \notin DOMAIN alerts
  /\ errors' = LogError("triggerAlert", tk[k], Alert(tk[k]).id)
  /\ Continue(k, tk[k])
  /\ UNCHANGED <<now, lastFire, users, alerts, priceHistory, alertLogs, sent,
                 nTicks, nFaults>>
  /\ UNCHANGED <<proc, bot>>

\* createAlertLog throws: the catch of triggerAlert logs it, nothing is sent
CreateLogFails(k) ==
  /\ running = k
  /\ tk[k].pc = "log"
  /\ nFaults < MaxFaults
  /\ nFaults' = nFaults + 1
  /\ errors' = LogError("triggerAlert", tk[k], Alert(tk[k]).id)
  /\ Continue(k, tk[k])
  /\ UNCHANGED <<now, lastFire, users, alerts, priceHistory, alertLogs, sent,
                 nTicks>>
  /\ UNCHANGED <<proc, bot>>

\* getCoinInfo returns; the owner is looked up with
\* getUserByTelegramId(alertConfig.userId); without a user the error is
\* logged and triggerAlert returns, with one sendMessage is called
CoinReturns(k) ==
  /\ running = 0
  /\ tk[k].pc = "coin"
  /\ LET a == Alert(tk[k])
         found == getUserByTelegramId(users, a.userId)
     IN IF found = {}
        THEN /\ errors' = LogError("userNotFound", tk[k], a.id)
             /\ Continue(k, tk[k])
             /\ UNCHANGED sent
        ELSE \E user \in found :
               /\ sent' = Append(sent, [alert |-> a.id, to |-> user.telegramId,
                                        logId |-> tk[k].logId, tick |-> tk[k].id,
                                        at |-> now, status |-> "pending"])
               /\ tk' = [tk EXCEPT ![k].pc = "send", ![k].sendIx = Len(sent) + 1,
                                   ![k].drift = FALSE]
               /\ UNCHANGED <<errors, running>>
  /\ UNCHANGED <<now, lastFire, users, alerts, priceHistory, alertLogs,
                 nTicks, nFaults>>
  /\ UNCHANGED <<proc, bot>>

\* getCoinInfo throws (the coin list cannot be fetched): the catch of
\* triggerAlert logs it, nothing is sent
CoinFails(k) ==
  /\ running = 0
  /\ tk[k].pc = "coin"
  /\ nFaults < MaxFaults
  /\ nFaults' = nFaults + 1
  /\ errors' = LogError("triggerAlert", tk[k], Alert(tk[k]).id)
  /\ Continue(k, tk[k])
  /\ UNCHANGED <<now, lastFire, users, alerts, priceHistory, alertLogs, sent,
                 nTicks>>
  /\ UNCHANGED <<proc, bot>>

\* a one-shot alert: after the message went out the alert is switched off
SendReturnsOneShot(k) ==
  /\ running = 0
  /\ tk[k].pc = "send"
  /\ sent' = [sent EXCEPT ![tk[k].sendIx].status = "ok"]
  /\ alerts' = updateAlert(alerts, Alert(tk[k]).id, FALSE)
  /\ Continue(k, tk[k])
  /\ UNCHANGED <<now, lastFire, users, priceHistory, alertLogs, errors,
                 nTicks, nFaults>>
  /\ UNCHANGED <<proc, bot>>

\* sendMessage resolves: getRecentAlertLogs(id, 5) is read and success is
\* logged; no statement updates the row of alert_logs
SendReturns(k) ==
  /\ running = 0
  /\ tk[k].pc = "send"
  /\ sent' = [sent EXCEPT ![tk[k].sendIx].status = "ok"]
  /\ Continue(k, tk[k])
  /\ UNCHANGED <<now, lastFire, users, alerts, priceHistory, alertLogs, errors,
                 nTicks, nFaults>>
  /\ UNCHANGED <<proc, bot>>

\* the rejection of sendMessage caught by no one but the outer catch of
\* checkPriceChanges
SendFailsEscapes(k) ==
  /\ running = 0
  /\ tk[k].pc = "send"
  /\ nFaults < MaxFaults
  /\ nFaults' = nFaults + 1
  /\ sent' = [sent EXCEPT ![tk[k].sendIx].status = "failed"]
  /\ errors' = LogError("checkPriceChanges", tk[k], 0)
  /\ tk' = [tk EXCEPT ![k] = IdleSlot]
  /\ UNCHANGED <<now, lastFire, users, alerts, priceHistory, alertLogs, nTicks,
                 running>>
  /\ UNCHANGED <<proc, bot>>

\* sendMessage rejects: the inner catch logs it, nothing is retried
SendFails(k) ==
  /\ running = 0
  /\ tk[k].pc = "send"
  /\ nFaults < MaxFaults
  /\ nFaults' = nFaults + 1
  /\ sent' = [sent EXCEPT ![tk[k].sendIx].status = "failed"]
  /\ errors' = LogError("sendMessage", tk[k], Alert(tk[k]).id)
  /\ Continue(k, tk[k])
  /\ UNCHANGED <<now, lastFire, users, alerts, priceHistory, alertLogs, nTicks>>
  /\ UNCHANGED <<proc, bot>>

\* A minute passes.  The cron task of a matching minute has fired before the
\* minute is over.  The price source answers or times out within 10 seconds
\* and the store calls are synchronous, while sendMessage has no such limit:
\* a run is in flight at the turn of a minute only if it waits for Telegram
\* (it is late from then on), or if it is late and has seen no other turn of
\* a minute since its last wait for Telegram.
AdvanceTime ==
  /\ CronMatches(now) => lastFire = now
  /\ nTicks < MaxTicks \/ \E s \in Slots : tk[s].pc # "idle"
  /\ \A s \in Slots :
       tk[s].pc # "idle" => tk[s].pc = "send" \/ (tk[s].late /\ ~tk[s].drift)
  /\ now' = now + 1
  /\ tk' = [s \in Slots |->
              IF tk[s].pc = "send" THEN [tk[s] EXCEPT !.late = TRUE]
              ELSE IF tk[s].pc # "idle" THEN [tk[s] EXCEPT !.drift = TRUE]
              ELSE tk[s]]
  /\ UNCHANGED <<lastFire, users, alerts, priceHistory, alertLogs, sent, errors,
                 running, nTicks, nFaults>>
  /\ UNCHANGED <<proc, bot>>

Next ==
  \/ AdvanceTime
  \/ \E k \in Slots :
       \/ CronFire(k)
       \/ FetchFails(k)
       \/ FetchReturns(k)
       \/ SavePrices(k)
       \/ SaveFails(k)
       \/ ShouldTrigger(k)
       \/ ShouldTriggerFails(k)
       \/ Reread(k)
       \/ RereadFails(k)
       \/ CreateLog(k)
       \/ CreateLogFails(k)
       \/ CoinReturns(k)
       \/ CoinFails(k)
       \/ SendReturns(k)
       \/ SendFails(k)

Spec == Init /\ [][Next]_vars

(***************************************************************************)
(* The runs after a restart: the process is started four minutes after a   *)
(* tick of an earlier run sampled the assets, so that this sample comes to *)
(* the edge of a window of five minutes while the first ticks run.  The    *)
(* alerts have windows of five minutes, or windows as long as the interval *)
(* between two ticks (the shortest window of the wizard, five minutes, is  *)
(* the default interval).                                                  *)
(***************************************************************************)
RestartWindows == {PRICE_CHECK_INTERVAL_MINUTES, 5}

EarlierTick(t) ==
  savePriceHistory(savePriceHistory(<<>>, "btc", 100, t - 4), "eth", 50, t - 4)

RestartInit ==
  /\ now = 12 * 60
  /\ lastFire = now - 1
  /\ users = {[id |-> 1, telegramId |-> 2, username |-> "u2"],
             [id |-> 2, telegramId |-> 7, username |-> "u7"]}
  /\ \E window \in RestartWindows :
       alerts =
         [id \in 1..3 |->
            [id |-> id,
             userId |-> IF id = 2 THEN 1 ELSE 2,
             cryptoId |-> IF id = 3 THEN "eth" ELSE "btc",
             thresholdPercentage |-> IF id = 1 THEN 3 ELSE IF id = 2 THEN 8 ELSE 5,
             timeframeMinutes |-> window,
             isActive |-> TRUE]]
  /\ priceHistory \in {EarlierRun(now), EarlierTick(now)}
  /\ alertLogs = <<>>
  /\ sent = <<>>
  /\ errors = {}
  /\ tk = [s \in Slots |-> IdleSlot]
  /\ running = 0
  /\ nTicks = 0
  /\ nFaults = 0
  /\ proc = Running
  /\ BotAtRest({"btc", "eth"}, <<>>)

RestartSpec == RestartInit /\ [][Next]_vars

(***************************************************************************)
(* The decision on one alert over any stored history.  A run has fetched   *)
(* the price of btc and has come to an alert on it; the store holds        *)
(* samples of earlier ticks and, unless the run is late, of this one.      *)
(***************************************************************************)
\* how many minutes before now a sample of btc may have been stored
SampleAges == {0, 3, 5, 7}
SamplePrices == {95, 100}
EvalTimes == {12 * 60, MinutesPerDay + 2}
EvalTimeframes == {2, 5}

\* the samples of btc of the given ages, oldest first; 0 stands for no sample
RECURSIVE StoredSamples(_, _, _, _)
StoredSamples(tbl, ages, priceAt, t) ==
  IF ages = {} THEN tbl
  ELSE LET a == CHOOSE x \in ages : \A y \in ages : x >= y
           next == IF priceAt[a] = 0 THEN tbl
                   ELSE savePriceHistory(tbl, "btc", priceAt[a], t - a)
       IN StoredSamples(next, ages \ {a}, priceAt, t)

EvalInit ==
  /\ now \in EvalTimes
  /\ lastFire = now
  /\ users = {[id |-> 1, telegramId |-> 2, username |-> "u2"],
             [id |-> 2, telegramId |-> 7, username |-> "u7"]}
  /\ \E tf \in EvalTimeframes :
       alerts = [id \in {1} |->
                   [id |-> 1, userId |-> 2, cryptoId |-> "btc",
                    thresholdPercentage |-> 3, timeframeMinutes |-> tf,
                    isActive |-> TRUE]]
  /\ \E priceAt \in [SampleAges -> SamplePrices \cup {0}], withEth \in BOOLEAN :
       priceHistory =
         StoredSamples(IF withEth THEN savePriceHistory(<<>>, "eth", 50, now - 8)
                                       \o savePriceHistory(<<>>, "eth", 50, now - 1)
                       ELSE <<>>,
                       SampleAges, priceAt, now)
  /\ alertLogs = <<>>
  /\ sent = <<>>
  /\ errors = {}
  /\ \E p \in PriceDomain["btc"] :
       tk = [s \in Slots |->
               IF s = 1
               THEN [IdleSlot EXCEPT !.pc = "eval", !.id = 1, !.i = 1,
                                     !.queue = GroupOrder({1}, alerts),
                                     !.resp = <<<<"btc", p>>>>]
               ELSE IdleSlot]
  /\ running = 1
  /\ nTicks = 1
  /\ nFaults = 0
  /\ proc = Running
  /\ BotAtRest({"btc", "eth"}, <<>>)

EvalNext == \E k \in Slots : ShouldTrigger(k) \/ Reread(k) \/ CreateLog(k)

EvalSpec == EvalInit /\ [][EvalNext]_vars

(***************************************************************************)
(* The decision over a history in which one sample of btc was recorded     *)
(* twice.  price_history has no uniqueness constraint on (crypto_id,       *)
(* timestamp), and CURRENT_TIMESTAMP has a resolution of one second: two   *)
(* inserts of one asset within a second leave two rows with one timestamp. *)
(***************************************************************************)
\* the samples of btc of the given ages, oldest first, the sample of the age
\* twinAge followed by a second row of the same timestamp with the price twin
RECURSIVE StoredTwice(_, _, _, _, _, _)
StoredTwice(tbl, ages, priceAt, twinAge, twin, t) ==
  IF ages = {} THEN tbl
  ELSE LET a == CHOOSE x \in ages : \A y \in ages : x >= y
           one == IF priceAt[a] = 0 THEN tbl
                  ELSE savePriceHistory(tbl, "btc", priceAt[a], t - a)
           two == IF a = twinAge /\ priceAt[a] # 0
                  THEN savePriceHistory(one, "btc", twin, t - a)
                  ELSE one
       IN StoredTwice(two, ages \ {a}, priceAt, twinAge, twin, t)

TwiceInit ==
  /\ now \in EvalTimes
  /\ lastFire = now
  /\ users = {[id |-> 1, telegramId |-> 2, username |-> "u2"],
             [id |-> 2, telegramId |-> 7, username |-> "u7"]}
  /\ \E tf \in EvalTimeframes :
       alerts = [id \in {1} |->
                   [id |-> 1, userId |-> 2, cryptoId |-> "btc",
                    thresholdPercentage |-> 3, timeframeMinutes |-> tf,
                    isActive |-> TRUE]]
  /\ \E priceAt \in [SampleAges -> SamplePrices \cup {0}],
        twinAge \in SampleAges, twin \in SamplePrices :
       /\ priceAt[twinAge] # 0
       /\ priceHistory = StoredTwice(<<>>, SampleAges, priceAt, twinAge, twin, now)
  /\ alertLogs = <<>>
  /\ sent = <<>>
  /\ errors = {}
  /\ \E p \in PriceDomain["btc"] :
       tk = [s \in Slots |->
               IF s = 1
               THEN [IdleSlot EXCEPT !.pc = "eval", !.id = 1, !.i = 1,
                                     !.queue = GroupOrder({1}, alerts),
                                     !.resp = <<<<"btc", p>>>>]
               ELSE IdleSlot]
  /\ running = 1
  /\ nTicks = 1
  /\ nFaults = 0
  /\ proc = Running
  /\ BotAtRest({"btc", "eth"}, <<>>)

TwiceSpec == TwiceInit /\ [][EvalNext]_vars

(***************************************************************************)
(* The callback buttons of the alert list (TelegramBotService), pressed    *)
(* before, during and after a tick.  The store calls of a handler run      *)
(* without another continuation in between.                                *)
(***************************************************************************)
\* toggle_alert_<id>: the alert is looked for among getAllActiveAlerts() and,
\* if found, updated to isActive = !alert.isActive; if it is not found the
\* handler does nothing
handleToggleAlert(id) ==
  /\ running = 0
  /\ LET found == {a \in getAllActiveAlerts(alerts) : a = id}
     IN IF found # {}
        THEN alerts' = updateAlert(alerts, id, ~alerts[id].isActive)
        ELSE UNCHANGED alerts
  /\ UNCHANGED <<now, lastFire, users, priceHistory, alertLogs, sent, errors,
                 tk, running, nTicks, nFaults>>
  /\ UNCHANGED <<proc, bot>>

\* a store call of the toggle handler throws: the catch logs it
handleToggleAlertFails(id) ==
  /\ running = 0
  /\ nFaults < MaxFaults
  /\ nFaults' = nFaults + 1
  /\ errors' = errors \cup {[where |-> "handleToggleAlert", tick |-> 0, alert |-> id]}
  /\ UNCHANGED <<now, lastFire, users, alerts, priceHistory, alertLogs, sent,
                 tk, running, nTicks>>
  /\ UNCHANGED <<proc, bot>>

\* delete_alert_<id>: deleteAlert(alertId)
handleDeleteAlert(id) ==
  /\ running = 0
  /\ id \in DOMAIN alerts
  /\ alerts' = deleteAlert(alerts, id)
  /\ alertLogs' = OnDeleteCascade(alertLogs, id)
  /\ UNCHANGED <<now, lastFire, users, priceHistory, sent, errors, tk, running,
                 nTicks, nFaults>>
  /\ UNCHANGED <<proc, bot>>

\* The bot has been up for a while: the store holds the samples of the last
\* tick, all alerts are active, and one more tick is looked at.
UserInit ==
  /\ now = 12 * 60
  /\ lastFire = now - 1
  /\ users = {[id |-> 1, telegramId |-> 2, username |-> "u2"],
             [id |-> 2, telegramId |-> 7, username |-> "u7"]}
  /\ alerts =
       [id \in 1..3 |->
          [id |-> id,
           userId |-> IF id = 2 THEN 1 ELSE 2,
           cryptoId |-> IF id = 3 THEN "eth" ELSE "btc",
           thresholdPercentage |-> IF id = 1 THEN 3 ELSE IF id = 2 THEN 8 ELSE 5,
           timeframeMinutes |-> 5,
           isActive |-> TRUE]]
  /\ priceHistory = EarlierRun(now)
  /\ alertLogs = <<>>
  /\ sent = <<>>
  /\ errors = {}
  /\ tk = [s \in Slots |-> IdleSlot]
  /\ running = 0
  /\ nTicks = MaxTicks - 1
  /\ nFaults = 0
  /\ proc = Running
  /\ BotAtRest({"btc", "eth"}, <<>>)

\* the steps of the runs of checkPriceChanges
RunNext ==
  \E k \in Slots :
       \/ CronFire(k)
       \/ FetchFails(k)
       \/ FetchReturns(k)
       \/ SavePrices(k)
       \/ SaveFails(k)
       \/ ShouldTrigger(k)
       \/ ShouldTriggerFails(k)
       \/ Reread(k)
       \/ RereadFails(k)
       \/ CreateLog(k)
       \/ CreateLogOrphan(k)
       \/ CreateLogFails(k)
       \/ CoinReturns(k)
       \/ CoinFails(k)
       \/ SendReturns(k)
       \/ SendFails(k)

UserNext ==
  \/ \E id \in 1..3 :
       \/ handleToggleAlert(id)
       \/ handleToggleAlertFails(id)
       \/ handleDeleteAlert(id)
  \/ RunNext

UserSpec == UserInit /\ [][UserNext]_vars

\* a run in flight goes on (the event loop resumes it, the network answers
\* or times out), and the user keeps pressing the toggle button of every alert
UserLiveSpec ==
  /\ UserSpec
  /\ WF_vars(RunNext)
  /\ \A id \in 1..3 : WF_vars(handleToggleAlert(id))

(***************************************************************************)
(* Shutdown (CryptoAlertBot.setupGracefulShutdown), beside one tick.  The  *)
(* handler runs up to its await of telegramService.stop(); what follows    *)
(* the await (close, process.exit) is synchronous.                         *)
(***************************************************************************)
\* the value of `running` once the process has exited: the event loop is
\* gone, and no continuation of a run or a handler is resumed
Exited == Cardinality(Slots) + 1

Signals == {"SIGINT", "SIGTERM", "uncaughtException", "unhandledRejection"}

\* a shutdown that closes the store before it waits for the bot to stop
shutdownCloseFirst(signal) ==
  /\ proc.alive
  /\ running = 0
  /\ proc.handlers
  /\ proc' = [proc EXCEPT !.cron = FALSE, !.db = "closed", !.pc = "awaitStop"]
  /\ UNCHANGED <<now, lastFire, users, alerts, priceHistory, alertLogs, sent,
                 errors, tk, running, nTicks, nFaults>>
  /\ UNCHANGED bot

\* shutdown(signal) up to its await: cronJob.stop(), then the call of
\* telegramService.stop().  A second signal runs the handler again.
shutdown(signal) ==
  /\ proc.alive
  /\ running = 0
  /\ proc.handlers
  /\ proc' = [proc EXCEPT !.cron = FALSE, !.pc = "awaitStop"]
  /\ UNCHANGED <<now, lastFire, users, alerts, priceHistory, alertLogs, sent,
                 errors, tk, running, nTicks, nFaults>>
  /\ UNCHANGED bot

\* telegramService.stop() resolves: dbService.close() and process.exit(0)
\* follow without another continuation in between
StopResolves ==
  /\ proc.alive
  /\ running = 0
  /\ proc.pc = "awaitStop"
  /\ proc' = [proc EXCEPT !.bot = "stopped", !.db = "closed", !.alive = FALSE,
                          !.pc = "exited"]
  /\ running' = Exited
  /\ UNCHANGED <<now, lastFire, users, alerts, priceHistory, alertLogs, sent,
                 errors, tk, nTicks, nFaults>>
  /\ UNCHANGED bot

\* telegramService.stop() rejects: the catch logs it and calls process.exit(1)
StopFails ==
  /\ proc.alive
  /\ running = 0
  /\ proc.pc = "awaitStop"
  /\ nFaults < MaxFaults
  /\ nFaults' = nFaults + 1
  /\ errors' = errors \cup {[where |-> "shutdown", tick |-> 0, alert |-> 0]}
  /\ proc' = [proc EXCEPT !.alive = FALSE, !.pc = "exited"]
  /\ running' = Exited
  /\ UNCHANGED <<now, lastFire, users, alerts, priceHistory, alertLogs, sent,
                 tk, nTicks>>
  /\ UNCHANGED bot

ShutNext ==
  \/ \E signal \in Signals : shutdown(signal)
  \/ StopResolves
  \/ StopFails
  \/ \E k \in Slots :
       \/ CronFire(k)
       \/ FetchFails(k)
       \/ FetchReturns(k)
       \/ SavePrices(k)
       \/ SaveFails(k)
       \/ ShouldTrigger(k)
       \/ ShouldTriggerFails(k)
       \/ Reread(k)
       \/ RereadFails(k)
       \/ CreateLog(k)
       \/ CreateLogFails(k)
       \/ CoinReturns(k)
       \/ CoinFails(k)
       \/ SendReturns(k)
       \/ SendFails(k)

ShutSpec == UserInit /\ [][ShutNext]_vars

(***************************************************************************)
(* The updates of a chat (TelegramBotService): the registration            *)
(* middleware, the command /create and the three steps of the creation     *)
(* wizard.  The store calls of the middleware are awaited one by one, so   *)
(* two updates handled at a time may both look the sender up before either *)
(* registers it.                                                           *)
(***************************************************************************)
\* an update is received while the bot polls; the middleware up to its first
\* await: getUserByTelegramId(ctx.from.id)
Middleware(u, from, username, msg) ==
  /\ running = 0
  /\ proc.bot = "polling"
  /\ upd[u].pc = "idle"
  /\ upd' = [upd EXCEPT ![u] =
               [pc |-> "mw", from |-> from, username |-> username,
                kind |-> msg.kind, text |-> msg.text,
                found |-> getUserByTelegramId(users, from) # {}]]
  /\ UNCHANGED <<now, lastFire, users, alerts, priceHistory, alertLogs, sent,
                 errors, tk, running, nTicks, nFaults, proc, cryptocurrencies,
                 session, userCommandCounts, coinsCache, part, handled>>

\* createUser refused by the store: the catch of the middleware logs and
\* replies, and the update is dropped
MiddlewareFails(u) ==
  /\ running = 0
  /\ upd[u].pc = "mw"
  /\ ~upd[u].found
  /\ ~Unique(users, upd[u].from)
  /\ errors' = errors \cup {[where |-> "middleware", tick |-> 0, alert |-> 0]}
  /\ upd' = [upd EXCEPT ![u] = IdleUpdate]
  /\ UNCHANGED <<now, lastFire, users, alerts, priceHistory, alertLogs, sent,
                 tk, running, nTicks, nFaults, proc, cryptocurrencies,
                 session, userCommandCounts, coinsCache, part, handled>>

\* the users table once the middleware has registered the sender
Registered(u) ==
  IF upd[u].found THEN users
  ELSE createUser(users, upd[u].from, upd[u].username)

\* the parts of a minute that the clock of the rate limiter tells apart:
\* new Date() has a resolution of one millisecond
Parts == 2
\* new Date(): the wall clock in parts of a minute
Instant == now * Parts + part

\* checkRateLimit(userId)
checkRateLimit(from) ==
  \/ Instant >= userCommandCounts[from].resetTime
  \/ userCommandCounts[from].count < MAX_COMMANDS_PER_MINUTE

\* userCommandCounts after a call of checkRateLimit that returned true
Counted(from) ==
  IF Instant >= userCommandCounts[from].resetTime
  THEN [userCommandCounts EXCEPT
          ![from] = [count |-> 1, resetTime |-> Instant + Parts]]
  ELSE [userCommandCounts EXCEPT ![from].count = @ + 1]

\* the sender is registered, but has sent too many commands this minute
RateLimited(u) ==
  /\ running = 0
  /\ upd[u].pc = "mw"
  /\ upd[u].found \/ Unique(users, upd[u].from)
  /\ ~checkRateLimit(upd[u].from)
  /\ users' = Registered(u)
  /\ upd' = [upd EXCEPT ![u] = IdleUpdate]
  /\ UNCHANGED <<now, lastFire, alerts, priceHistory, alertLogs, sent, errors,
                 tk, running, nTicks, nFaults, proc, cryptocurrencies,
                 session, userCommandCounts, coinsCache, part, handled>>

\* the middleware from createUser to next()
Admits(u) ==
  /\ running = 0
  /\ upd[u].pc = "mw"
  /\ upd[u].found \/ Unique(users, upd[u].from)
  /\ checkRateLimit(upd[u].from)
  /\ users' = Registered(u)
  /\ userCommandCounts' = Counted(upd[u].from)
  /\ handled' = [handled EXCEPT ![upd[u].from] = Append(@, Instant)]
  /\ UNCHANGED <<now, lastFire, priceHistory, sent, tk, running, nTicks, proc,
                 cryptocurrencies, part>>

\* what every update does whose handler runs to its end without waiting for
\* the price source
CallsNext(u) == Admits(u) /\ upd' = [upd EXCEPT ![u] = IdleUpdate]

\* an update handled by a handler that leaves the trigger log alone
Passes(u) == CallsNext(u) /\ UNCHANGED alertLogs

\* /create: the wizard is put on its first step
handleCreateAlertCommand(u) ==
  /\ Passes(u)
  /\ upd[u].kind = "command"
  /\ upd[u].text = <<"/", "c">>
  /\ session' = [session EXCEPT ![upd[u].from] = [NoConfig EXCEPT !.step = "crypto"]]
  /\ UNCHANGED <<alerts, errors, nFaults, coinsCache>>

\* /cancel: the wizard is dropped
handleCancelCommand(u) ==
  /\ Passes(u)
  /\ upd[u].kind = "command"
  /\ upd[u].text = <<"/", "x">>
  /\ session' = [session EXCEPT ![upd[u].from] = NoConfig]
  /\ UNCHANGED <<alerts, errors, nFaults, coinsCache>>

\* a text outside the wizard: the default reply
handleTextMessage(u) ==
  /\ Passes(u)
  /\ upd[u].kind = "text"
  /\ session[upd[u].from].step = "undefined"
  /\ UNCHANGED <<alerts, errors, nFaults, coinsCache, session>>

\* a text inside the wizard.  Step 'crypto': the coin is looked up and kept;
\* step 'threshold': the text is read by parseFloat and checked; step
\* 'timeframe': the text is read by parseInt and checked, and createAlert
\* stores the alert for the sender.  A text that fails a check is answered
\* and the step is left as it is.
handleAlertConfigFlow(u) ==
  /\ Passes(u)
  /\ upd[u].kind = "text"
  /\ session[upd[u].from].step # "undefined"
  /\ LET from == upd[u].from
         text == upd[u].text
         config == session[from]
         cached == coinsCache.coins # <<>> /\ now < coinsCache.cacheExpiry
         coins == IF cached THEN coinsCache.coins ELSE coinsCache.listed
         coin == findCoinBySymbol(coins, text)
         threshold == parseFloat(text)
         timeframe == parseInt(text)
     IN CASE config.step = "crypto" ->
               /\ coinsCache' = IF cached THEN coinsCache
                                ELSE [coinsCache EXCEPT !.coins = coins,
                                                        !.cacheExpiry = now + 60]
               /\ session' = IF coin = NoCoin THEN session
                             ELSE [session EXCEPT ![from] =
                                     [config EXCEPT !.crypto = coin.id,
                                                    !.step = "threshold"]]
               /\ UNCHANGED <<alerts, errors>>
          [] config.step = "threshold" ->
               /\ session' = IF isNaN(threshold) \/ ThresholdOutOfRange(threshold)
                             THEN session
                             ELSE [session EXCEPT ![from] =
                                     [config EXCEPT !.threshold = threshold,
                                                    !.step = "timeframe"]]
               /\ UNCHANGED <<alerts, errors, coinsCache>>
          [] config.step = "timeframe" ->
               IF isNaN(timeframe) \/ TimeframeOutOfRange(timeframe)
               THEN UNCHANGED <<session, alerts, errors, coinsCache>>
               ELSE /\ session' = [session EXCEPT ![from] = NoConfig]
                    /\ UNCHANGED coinsCache
                    /\ \E user \in getUserByTelegramId(Registered(u), from) :
                         LET alert == [userId |-> user.id,
                                       cryptoId |-> config.crypto,
                                       thresholdPercentage |-> config.threshold,
                                       timeframeMinutes |-> timeframe[1],
                                       isActive |-> TRUE]
                         IN IF ForeignKeysHold(Registered(u), cryptocurrencies, alert)
                            THEN /\ alerts' = createAlert(alerts, alert)
                                 /\ UNCHANGED errors
                            ELSE /\ errors' = errors \cup
                                      {[where |-> "createAlert", tick |-> 0,
                                        alert |-> 0]}
                                 /\ UNCHANGED alerts
  /\ UNCHANGED nFaults

\* the request for the supported coins or ctx.reply rejects in a step that
\* does not create: the catch of handleAlertConfigFlow logs, replies and
\* drops the wizard
handleAlertConfigFlowFails(u) ==
  /\ Passes(u)
  /\ upd[u].kind = "text"
  /\ LET config == session[upd[u].from]
         timeframe == parseInt(upd[u].text)
     IN \/ config.step \in {"crypto", "threshold"}
        \/ /\ config.step = "timeframe"
           /\ isNaN(timeframe) \/ TimeframeOutOfRange(timeframe)
  /\ nFaults < MaxFaults
  /\ nFaults' = nFaults + 1
  /\ session' = [session EXCEPT ![upd[u].from] = NoConfig]
  /\ errors' = errors \cup {[where |-> "alertConfigFlow", tick |-> 0, alert |-> 0]}
  /\ UNCHANGED <<alerts, coinsCache>>

\* a store that holds no user, no alert and no sample: either as
\* initializeTables leaves it, or with the rows of cryptocurrencies put in
\* from outside; the price source lists the whole pool
BotInit ==
  /\ now = 12 * 60
  /\ lastFire = now
  /\ users = {}
  /\ alerts = <<>>
  /\ priceHistory = <<>>
  /\ alertLogs = <<>>
  /\ sent = <<>>
  /\ errors = {}
  /\ tk = [s \in Slots |-> IdleSlot]
  /\ running = 0
  /\ nTicks = MaxTicks
  /\ nFaults = 0
  /\ proc = Running
  /\ \E cryptoIds \in {{}, {c.id : c \in CoinPool}}, listed \in Orderings(CoinPool) :
       /\ listed[1].symbol = <<"a">>
       /\ listed[2].symbol = <<"a", "b">>
       /\ BotAtRest(cryptoIds, listed)

BotNext ==
  \E u \in UpdSlots :
    \/ \E from \in Senders, username \in Usernames, msg \in Messages :
         Middleware(u, from, username, msg)
    \/ MiddlewareFails(u)
    \/ RateLimited(u)
    \/ handleCreateAlertCommand(u)
    \/ handleCancelCommand(u)
    \/ handleTextMessage(u)
    \/ handleAlertConfigFlow(u)
    \/ handleAlertConfigFlowFails(u)

BotSpec == BotInit /\ [][BotNext]_vars

(***************************************************************************)
(* findCoinBySymbol on any list of supported coins: a registered sender is *)
(* on the first step of the wizard and has sent the name of a coin.        *)
(***************************************************************************)
Queries ==
  {<<>>, <<"a">>, <<"A">>, <<"b">>, <<"a", "b">>, <<"A", "B">>, <<"A", "b">>,
   <<"b", "a">>, <<"b", "b">>, <<"x">>}

CoinInit ==
  /\ now = 12 * 60
  /\ lastFire = now
  /\ users = {[id |-> 1, telegramId |-> 5, username |-> "neo"]}
  /\ alerts = <<>>
  /\ priceHistory = <<>>
  /\ alertLogs = <<>>
  /\ sent = <<>>
  /\ errors = {}
  /\ tk = [s \in Slots |-> IdleSlot]
  /\ running = 0
  /\ nTicks = MaxTicks
  /\ nFaults = 0
  /\ proc = Running
  /\ cryptocurrencies = {c.id : c \in CoinPool}
  /\ session = [c \in Senders |-> [NoConfig EXCEPT !.step = "crypto"]]
  /\ \E q \in Queries :
       upd = [u \in UpdSlots |->
                IF u = 1
                THEN [pc |-> "mw", from |-> 5, username |-> "neo",
                      kind |-> "text", text |-> q, found |-> TRUE]
                ELSE IdleUpdate]
  /\ part = 0
  /\ userCommandCounts =
       [c \in Senders |-> [count |-> 1, resetTime |-> Instant + Parts]]
  /\ handled = [c \in Senders |-> <<Instant>>]
  /\ \E listed \in CoinLists :
       coinsCache = [coins |-> <<>>, cacheExpiry |-> 0, listed |-> listed]

CoinNext == \E u \in UpdSlots : handleAlertConfigFlow(u)

CoinSpec == CoinInit /\ [][CoinNext]_vars

(***************************************************************************)
(* CryptoAlertBot.start().  start() awaits telegramService.start(), which  *)
(* awaits bot.start(); grammY's bot.start() runs the polling loop and its  *)
(* promise settles only when the bot is stopped or the polling fails.  The *)
(* rest of start(), startPriceMonitoring() and setupGracefulShutdown(), is *)
(* the continuation of that await.  Nothing stops the bot before the       *)
(* shutdown handlers are installed, so the await ends only by a rejection. *)
(***************************************************************************)
\* the application once its services are constructed
Constructed ==
  [pc |-> "constructed", bot |-> "idle", cron |-> FALSE, handlers |-> FALSE,
   db |-> "open", alive |-> TRUE]

\* the values of PRICE_CHECK_INTERVAL_MINUTES looked at
Intervals == {1, 5, 7}

\* start() up to its await: the bot begins to poll
start ==
  /\ proc.pc = "constructed"
  /\ proc' = [proc EXCEPT !.pc = "awaitStart", !.bot = "polling"]
  /\ UNCHANGED <<now, lastFire, users, alerts, priceHistory, alertLogs, sent,
                 errors, tk, running, nTicks, nFaults, bot>>

\* bot.start() rejects: the catch of start() logs and calls process.exit(1)
startFails ==
  /\ proc.pc = "awaitStart"
  /\ running = 0
  /\ nFaults < MaxFaults
  /\ nFaults' = nFaults + 1
  /\ errors' = errors \cup {[where |-> "start", tick |-> 0, alert |-> 0]}
  /\ proc' = [proc EXCEPT !.pc = "exited", !.bot = "stopped", !.alive = FALSE]
  /\ running' = Exited
  /\ UNCHANGED <<now, lastFire, users, alerts, priceHistory, alertLogs, sent,
                 tk, nTicks, bot>>

StartInit ==
  /\ now = 12 * 60
  /\ lastFire = now - 1
  /\ users = {}
  /\ alerts = <<>>
  /\ priceHistory = <<>>
  /\ alertLogs = <<>>
  /\ sent = <<>>
  /\ errors = {}
  /\ tk = [s \in Slots |-> IdleSlot]
  /\ running = 0
  /\ nTicks = 0
  /\ nFaults = 0
  /\ proc = Constructed
  /\ BotAtRest({}, <<>>)

\* the start and, while the bot polls, the /create commands of a sender
StartNext ==
  \/ start
  \/ startFails
  \/ \E u \in UpdSlots :
       \/ \E from \in Senders, username \in Usernames :
            Middleware(u, from, username, [kind |-> "command", text |-> <<"/", "c">>])
       \/ MiddlewareFails(u)
       \/ RateLimited(u)
       \/ handleCreateAlertCommand(u)

StartSpec == StartInit /\ [][StartNext]_vars

\* the process takes the steps it can take
StartLiveSpec == StartSpec /\ WF_vars(StartNext)

(***************************************************************************)
(* The rate limiter (checkRateLimit) over time: two registered users send  *)
(* commands while the clock advances by parts of a minute.                 *)
(***************************************************************************)
\* the users that send commands, by ctx.from.id
RateSenders == {2, 7}
\* how far the clock advances, in parts of a minute
MaxInstants == 2

\* the clock advances by one part of a minute
TimePasses ==
  /\ Instant < (12 * 60) * Parts + MaxInstants
  /\ part' = (part + 1) % Parts
  /\ now' = IF part + 1 = Parts THEN now + 1 ELSE now
  /\ UNCHANGED <<lastFire, users, alerts, priceHistory, alertLogs, sent,
                 errors, tk, running, nTicks, nFaults, proc, cryptocurrencies,
                 session, upd, userCommandCounts, coinsCache, handled>>

RateInit ==
  /\ now = 12 * 60
  /\ lastFire = now
  /\ users = {[id |-> 1, telegramId |-> 2, username |-> "u2"],
              [id |-> 2, telegramId |-> 7, username |-> "u7"]}
  /\ alerts = <<>>
  /\ priceHistory = <<>>
  /\ alertLogs = <<>>
  /\ sent = <<>>
  /\ errors = {}
  /\ tk = [s \in Slots |-> IdleSlot]
  /\ running = 0
  /\ nTicks = MaxTicks
  /\ nFaults = 0
  /\ proc = Running
  /\ cryptocurrencies = {}
  /\ session = [c \in RateSenders |-> NoConfig]
  /\ upd = [u \in UpdSlots |-> IdleUpdate]
  /\ userCommandCounts = [c \in RateSenders |-> [count |-> 0, resetTime |-> 0]]
  /\ coinsCache = [coins |-> <<>>, cacheExpiry |-> 0, listed |-> <<>>]
  /\ part = 0
  /\ handled = [c \in RateSenders |-> <<>>]

RateNext ==
  \/ TimePasses
  \/ \E from \in RateSenders :
       Middleware(1, from, "", [kind |-> "command", text |-> <<"/", "c">>])
  \/ RateLimited(1)
  \/ handleCreateAlertCommand(1)

RateSpec == RateInit /\ [][RateNext]_vars

(***************************************************************************)
(* The buttons of the alert list (setupCallbacks): two registered users    *)
(* send callback queries whose data name an alert.  The kind of such an    *)
(* update is the prefix of its data, its text what follows the prefix.     *)
(***************************************************************************)
CallbackQueries ==
  {[kind |-> k, text |-> <<Digits[id + 1]>>] :
     k \in {"delete_alert_", "toggle_alert_"}, id \in 1..3}

\* data.startsWith('delete_alert_'): handleDeleteAlert(ctx, alertId)
callbackDeleteAlert(u) ==
  /\ CallsNext(u)
  /\ upd[u].kind = "delete_alert_"
  /\ LET alertId == parseInt(upd[u].text)[1]
     IN /\ alerts' = deleteAlert(alerts, alertId)
        /\ alertLogs' = OnDeleteCascade(alertLogs, alertId)
  /\ UNCHANGED <<errors, nFaults, session, coinsCache>>

\* data.startsWith('toggle_alert_'): handleToggleAlert(ctx, alertId)
callbackToggleAlert(u) ==
  /\ Passes(u)
  /\ upd[u].kind = "toggle_alert_"
  /\ LET alertId == parseInt(upd[u].text)[1]
         found == {a \in getAllActiveAlerts(alerts) : a = alertId}
     IN IF found # {}
        THEN alerts' = updateAlert(alerts, alertId, ~alerts[alertId].isActive)
        ELSE UNCHANGED alerts
  /\ UNCHANGED <<errors, nFaults, session, coinsCache>>

CallbackInit ==
  /\ now = 12 * 60
  /\ lastFire = now
  /\ users = {[id |-> 1, telegramId |-> 2, username |-> "u2"],
              [id |-> 2, telegramId |-> 7, username |-> "u7"]}
  /\ alerts =
       [id \in 1..3 |->
          [id |-> id,
           userId |-> IF id = 2 THEN 1 ELSE 2,
           cryptoId |-> IF id = 3 THEN "eth" ELSE "btc",
           thresholdPercentage |-> IF id = 1 THEN 3 ELSE IF id = 2 THEN 8 ELSE 5,
           timeframeMinutes |-> 5,
           isActive |-> TRUE]]
  /\ priceHistory = EarlierRun(now)
  /\ alertLogs = <<>>
  /\ sent = <<>>
  /\ errors = {}
  /\ tk = [s \in Slots |-> IdleSlot]
  /\ running = 0
  /\ nTicks = MaxTicks
  /\ nFaults = 0
  /\ proc = Running
  /\ cryptocurrencies = {"btc", "eth"}
  /\ session = [c \in RateSenders |-> NoConfig]
  /\ upd = [u \in UpdSlots |-> IdleUpdate]
  /\ userCommandCounts = [c \in RateSenders |-> [count |-> 0, resetTime |-> 0]]
  /\ coinsCache = [coins |-> <<>>, cacheExpiry |-> 0, listed |-> <<>>]
  /\ part = 0
  /\ handled = [c \in RateSenders |-> <<>>]

CallbackNext ==
  \E u \in UpdSlots :
    \/ \E from \in RateSenders, query \in CallbackQueries :
         Middleware(u, from, "", query)
    \/ RateLimited(u)
    \/ callbackDeleteAlert(u)
    \/ callbackToggleAlert(u)

CallbackSpec == CallbackInit /\ [][CallbackNext]_vars

(***************************************************************************)
(* The cache of the supported coins (CryptoService.getSupportedCoins) over *)
(* the hours.  A registered user on the first step of the wizard sends     *)
(* names of coins; each text makes findCoinBySymbol call                   *)
(* getSupportedCoins, which answers from the cache or awaits               *)
(* GET /coins/list.  Two such calls may wait at a time; the list that the  *)
(* price source answers with changes over time.                            *)
(***************************************************************************)
CacheLists ==
  {<<[id |-> <<"b">>, symbol |-> <<"a", "b">>, name |-> <<"B">>]>>,
   <<[id |-> <<"b">>, symbol |-> <<"a", "b">>, name |-> <<"B">>],
     [id |-> <<"a", "b">>, symbol |-> <<"a">>, name |-> <<"A", "b">>]>>}
CacheTexts == {<<"x">>, <<"a">>}
\* how many half hours pass
MaxHalfHours == 2

\* this.coinsCache.length > 0 && new Date() < this.cacheExpiry
CacheValid == coinsCache.coins # <<>> /\ now < coinsCache.cacheExpiry

\* a successful fetch kept until the present moment only
FetchedUntilNow(data) ==
  [coinsCache EXCEPT !.coins = data, !.cacheExpiry = now]

\* this.coinsCache = response.data; this.cacheExpiry = now + one hour
Fetched(data) ==
  [coinsCache EXCEPT !.coins = data, !.cacheExpiry = now + 60]

\* the first step of the wizard with the cache valid: getSupportedCoins
\* returns the cached list
getSupportedCoinsCached(u) ==
  /\ handleAlertConfigFlow(u)
  /\ session[upd[u].from].step = "crypto"
  /\ CacheValid

\* the first step of the wizard with the cache empty or expired:
\* getSupportedCoins awaits GET /coins/list
getSupportedCoins(u) ==
  /\ Admits(u)
  /\ upd[u].kind = "text"
  /\ session[upd[u].from].step = "crypto"
  /\ ~CacheValid
  /\ upd' = [upd EXCEPT ![u].pc = "coins"]
  /\ UNCHANGED <<alerts, alertLogs, errors, nFaults, session, coinsCache>>

\* the response arrives: the cache and its expiry are set, findCoinBySymbol
\* searches the list, and the wizard object that the handler holds is advanced
\* (when the session has dropped that object meanwhile, nothing shows)
getSupportedCoinsReturns(u) ==
  /\ running = 0
  /\ upd[u].pc = "coins"
  /\ LET from == upd[u].from
         config == session[from]
         coin == findCoinBySymbol(coinsCache.listed, upd[u].text)
     IN /\ coinsCache' = Fetched(coinsCache.listed)
        /\ session' = IF coin = NoCoin \/ config.step = "undefined" THEN session
                      ELSE [session EXCEPT ![from] =
                              [config EXCEPT !.crypto = coin.id,
                                             !.step = "threshold"]]
  /\ upd' = [upd EXCEPT ![u] = IdleUpdate]
  /\ UNCHANGED <<now, lastFire, users, alerts, priceHistory, alertLogs, sent,
                 errors, tk, running, nTicks, nFaults, proc, cryptocurrencies,
                 userCommandCounts, part, handled>>

\* the request fails: getSupportedCoins throws, and the catch of
\* handleAlertConfigFlow logs, replies and drops the wizard
getSupportedCoinsFails(u) ==
  /\ running = 0
  /\ upd[u].pc = "coins"
  /\ nFaults < MaxFaults
  /\ nFaults' = nFaults + 1
  /\ errors' = errors \cup {[where |-> "alertConfigFlow", tick |-> 0, alert |-> 0]}
  /\ session' = [session EXCEPT ![upd[u].from] = NoConfig]
  /\ upd' = [upd EXCEPT ![u] = IdleUpdate]
  /\ UNCHANGED <<now, lastFire, users, alerts, priceHistory, alertLogs, sent,
                 tk, running, nTicks, proc, cryptocurrencies,
                 userCommandCounts, coinsCache, part, handled>>

\* a text on the second step of the wizard
handleThresholdStep(u) ==
  /\ handleAlertConfigFlow(u)
  /\ session[upd[u].from].step = "threshold"

\* the price source lists another set of coins
ListChanges ==
  /\ \E listed \in CacheLists \ {coinsCache.listed} :
       coinsCache' = [coinsCache EXCEPT !.listed = listed]
  /\ UNCHANGED <<now, lastFire, users, alerts, priceHistory, alertLogs, sent,
                 errors, tk, running, nTicks, nFaults, proc, cryptocurrencies,
                 session, upd, userCommandCounts, part, handled>>

\* half an hour passes
HalfHourPasses ==
  /\ now < 12 * 60 + 30 * MaxHalfHours
  /\ now' = now + 30
  /\ UNCHANGED <<lastFire, users, alerts, priceHistory, alertLogs, sent,
                 errors, tk, running, nTicks, nFaults, proc, bot>>

CacheInit ==
  /\ now = 12 * 60
  /\ lastFire = now
  /\ users = {[id |-> 1, telegramId |-> 5, username |-> "neo"]}
  /\ alerts = <<>>
  /\ priceHistory = <<>>
  /\ alertLogs = <<>>
  /\ sent = <<>>
  /\ errors = {}
  /\ tk = [s \in Slots |-> IdleSlot]
  /\ running = 0
  /\ nTicks = MaxTicks
  /\ nFaults = 0
  /\ proc = Running
  /\ cryptocurrencies = {c.id : c \in CoinPool}
  /\ session = [c \in Senders |-> [NoConfig EXCEPT !.step = "crypto"]]
  /\ upd = [u \in UpdSlots |-> IdleUpdate]
  /\ part = 0
  /\ userCommandCounts =
       [c \in Senders |-> [count |-> 1, resetTime |-> Instant + Parts]]
  /\ handled = [c \in Senders |-> <<Instant>>]
  /\ \E listed \in CacheLists :
       coinsCache = [coins |-> <<>>, cacheExpiry |-> 0, listed |-> listed]

CacheNext ==
  \/ HalfHourPasses
  \/ ListChanges
  \/ \E u \in UpdSlots :
       \/ \E from \in Senders, text \in CacheTexts :
            Middleware(u, from, "neo", [kind |-> "text", text |-> text])
       \/ RateLimited(u)
       \/ getSupportedCoinsCached(u)
       \/ getSupportedCoins(u)
       \/ getSupportedCoinsReturns(u)
       \/ getSupportedCoinsFails(u)
       \/ handleTextMessage(u)
       \/ handleThresholdStep(u)

CacheSpec == CacheInit /\ [][CacheNext]_vars

(***************************************************************************)
(* The notions of the specification, stated on instants and exact          *)
(* arithmetic, independently of how the store compares its strings.        *)
(***************************************************************************)
LogRows == SeqToSet(alertLogs)
SentCalls == SeqToSet(sent)
InFlight == {s \in Slots : tk[s].pc # "idle"}

\* pctChange <= -threshold for pctChange = (current - baseline) / baseline * 100
PctAtMost(current, baseline, threshold) ==
  baseline > 0 /\ (current - baseline) * 100 <= -(threshold * baseline)

\* the samples of an asset inside the window of the last `window` minutes
InWindow(cryptoId, window, t) ==
  {r \in SeqToSet(priceHistory) :
     r.cryptoId = cryptoId /\ ParseDate(r.timestamp) >= t - window}

\* the baseline samples: the oldest ones inside the window
Baselines(cryptoId, window, t) ==
  {r \in InWindow(cryptoId, window, t) :
     \A q \in InWindow(cryptoId, window, t) :
       ParseDate(q.timestamp) >= ParseDate(r.timestamp)}

\* firedRecently: a trigger-log entry with trigger time >= now - cooldown
FiredRecently(alertId, t) ==
  \E l \in LogRows :
    /\ l.alertConfigId = alertId
    /\ ParseDate(l.triggered_at) >= t - ALERT_COOLDOWN_MINUTES

\* steps of a run
DecidesToTrigger(k) == tk[k].pc = "eval" /\ tk'[k].pc = "reread"
Moves(k) ==
  <<tk'[k].pc, tk'[k].i, tk'[k].id>> # <<tk[k].pc, tk[k].i, tk[k].id>>
PassesOver(k) ==
  /\ tk[k].pc = "eval"
  /\ Moves(k)
  /\ tk'[k].pc # "reread"
LogWritten == Len(alertLogs') = Len(alertLogs) + 1
NewLog == alertLogs'[Len(alertLogs')]
MessageSent == Len(sent') = Len(sent) + 1
NewMessage == sent'[Len(sent')]

\* a run enters a stage of a firing only from the stage before it, for the
\* same alert of the same run
StagesInOrder(k) ==
  LET before == [reread |-> "eval", log |-> "reread", coin |-> "log", send |-> "coin"]
  IN (tk'[k].pc \in DOMAIN before /\ tk'[k].pc # tk[k].pc) =>
       /\ tk[k].pc = before[tk'[k].pc]
       /\ tk'[k].id = tk[k].id
       /\ tk'[k].i = tk[k].i

\* C1: an alert whose pctChange against its baseline is above -threshold (no
\* change and every rise included) is not triggered in the tick: the run
\* decides to trigger only when the drop reaches the threshold, and it writes
\* a trigger-log entry or sends a message for an alert only after that
\* decision.
C1_NoTriggerAboveThreshold ==
  [][\A k \in Slots :
       /\ DecidesToTrigger(k) =>
            \E r \in Baselines(Alert(tk[k]).cryptoId,
                               Alert(tk[k]).timeframeMinutes, now) :
              PctAtMost(PriceOf(tk[k].resp, Alert(tk[k]).cryptoId), r.price,
                        Alert(tk[k]).thresholdPercentage)
       /\ StagesInOrder(k)
       /\ (LogWritten /\ NewLog.tick = tk[k].id) =>
            tk[k].pc = "log" /\ NewLog.alertConfigId = Alert(tk[k]).id
       /\ (MessageSent /\ NewMessage.tick = tk[k].id) =>
            tk[k].pc = "coin" /\ NewMessage.alert = Alert(tk[k]).id
    ]_vars

\* a run has passed the 8% alert at a drop of 5% and wrote nothing for it,
\* after it fired the 3% alert of the same asset
C1_Witness ==
  \E k \in Slots :
    /\ tk[k].pc = "eval" /\ tk[k].i = 3
    /\ PriceOf(tk[k].resp, "btc") = 95
    /\ \A r \in Baselines("btc", 5, now) : r.price = 100
    /\ Baselines("btc", 5, now) # {}
    /\ \E l \in LogRows : l.tick = tk[k].id /\ l.alertConfigId = 1
    /\ ~\E l \in LogRows : l.tick = tk[k].id /\ l.alertConfigId = 2
    /\ ~\E n \in SentCalls : n.tick = tk[k].id /\ n.alert = 2

\* what the specification asks of an alert before it fires: its asset
\* returned a price, no trigger-log entry lies inside the cooldown window, a
\* baseline sample lies inside its window, and the drop reaches the threshold
Due(k) ==
  LET a == Alert(tk[k])
      current == PriceOf(tk[k].resp, a.cryptoId)
      base == Baselines(a.cryptoId, a.timeframeMinutes, now)
  IN /\ current # NoPrice
     /\ ~FiredRecently(a.id, now)
     /\ base # {}
     /\ \A r \in base : PctAtMost(current, r.price, a.thresholdPercentage)

\* C2: in a tick without any failure or overlap, an active alert that is due (price
\* returned, no trigger-log entry inside the cooldown window, baseline inside
\* the window, pctChange <= -threshold) is triggered: the run does not pass
\* it over, and the firing writes its trigger-log entry.
C2_DueAlertTriggers ==
  [][\A k \in Slots :
       /\ (nFaults' = 0 /\ InFlight = {k} /\ tk[k].pc = "eval" /\ Due(k)) =>
            ~PassesOver(k)
       /\ (nFaults' = 0 /\ InFlight = {k} /\ tk[k].pc = "log" /\ Moves(k)) =>
            LogWritten /\ NewLog.alertConfigId = Alert(tk[k]).id
    ]_vars

\* C3: while a trigger-log entry of an alert has its trigger time within the
\* last ALERT_COOLDOWN_MINUTES, no run writes another trigger-log entry for
\* that alert, and no run sends a message for it other than the message of
\* the firing that wrote that entry.
C3_CooldownSuppresses ==
  [][/\ LogWritten => ~FiredRecently(NewLog.alertConfigId, now)
     /\ MessageSent =>
          ~\E l \in LogRows :
             /\ l.alertConfigId = NewMessage.alert
             /\ l.id # NewMessage.logId
             /\ ParseDate(l.triggered_at) >= now - ALERT_COOLDOWN_MINUTES
    ]_vars

\* a run evaluates the 3% alert one minute after it fired, at a drop of 8%,
\* and is about to move on to the next alert: nothing new was written
C3_Witness ==
  \E k \in Slots :
    /\ tk[k].pc = "eval" /\ tk[k].i = 2
    /\ PriceOf(tk[k].resp, "btc") = 92
    /\ \A r \in Baselines("btc", 5, now) : r.price = 100
    /\ \E l \in LogRows :
         l.alertConfigId = 1 /\ ParseDate(l.triggered_at) = now - 1
    /\ Cardinality({l \in LogRows : l.alertConfigId = 1}) = 1
    /\ nFaults = 0

\* C4: the cooldown check finds an entry exactly when a trigger-log entry of
\* the alert has its trigger time >= now - ALERT_COOLDOWN_MINUTES.
C4_CooldownIffRecent ==
  \A id \in DOMAIN alerts :
    (getRecentAlertLogs(alertLogs, id, ALERT_COOLDOWN_MINUTES, now) # {})
      <=> FiredRecently(id, now)

\* C5: ticks execute sequentially: at most one run of checkPriceChanges is in
\* progress at any time.
C5_TicksSequential == Cardinality(InFlight) <= 1

C7_LogBeforeNotify ==
  /\ [](\A n \in SentCalls :
          /\ n.logId \in 1..Len(alertLogs)
          /\ alertLogs[n.logId].alertConfigId = n.alert
          /\ alertLogs[n.logId].tick = n.tick
          /\ ParseDate(alertLogs[n.logId].triggered_at) <= n.at)
  /\ [](\A k \in Slots :
          tk[k].pc \in {"coin", "send"} =>
            /\ tk[k].logId \in 1..Len(alertLogs)
            /\ alertLogs[tk[k].logId].alertConfigId = Alert(tk[k]).id
            /\ alertLogs[tk[k].logId].oldPrice = tk[k].oldPrice
            /\ alertLogs[tk[k].logId].newPrice =
                 PriceOf(tk[k].resp, Alert(tk[k]).cryptoId)
            /\ alertLogs[tk[k].logId].priceChange = tk[k].priceChange
            /\ ~alertLogs[tk[k].logId].sent)
  /\ [][\A k \in Slots :
          /\ LogWritten /\ NewLog.tick = tk[k].id =>
               /\ NewLog.triggered_at = toISOString(now)
               /\ ~NewLog.sent
               /\ ~MessageSent
          /\ (tk[k].pc = "log" /\ Moves(k) /\ ~LogWritten) =>
               /\ ~MessageSent
               /\ tk'[k].pc \in {"eval", "idle"}
               /\ [where |-> "triggerAlert", tick |-> tk[k].id,
                   alert |-> Alert(tk[k]).id] \in errors'
     ]_vars

\* a message is out for a firing whose entry is in the log, and another
\* firing lost its entry to a failed write and sent nothing
C7_Witness ==
  /\ \E n \in SentCalls : n.logId \in 1..Len(alertLogs)
  /\ \E e \in errors :
       /\ e.where = "triggerAlert"
       /\ ~\E l \in LogRows : l.tick = e.tick /\ l.alertConfigId = e.alert
       /\ ~\E n \in SentCalls : n.tick = e.tick /\ n.alert = e.alert

\* C8: once the trigger-log entry of a firing is written, every evaluation of
\* the alert within the cooldown window passes it over, whether the message
\* of the firing went out, failed, is still on its way or was never handed
\* to sendMessage.  A failed sendMessage is logged and the run goes on to the
\* next alert: no firing has two messages.
C8_SuppressedWhateverDelivery ==
  /\ [](\A m, n \in 1..Len(sent) : sent[m].logId = sent[n].logId => m = n)
  /\ [][\A k \in Slots :
          /\ (tk[k].pc = "eval" /\ Moves(k) /\ FiredRecently(Alert(tk[k]).id, now)) =>
               PassesOver(k) /\ ~LogWritten /\ ~MessageSent
          /\ (tk[k].pc = "send" /\ Moves(k) /\ sent'[tk[k].sendIx].status = "failed") =>
               /\ [where |-> "sendMessage", tick |-> tk[k].id,
                   alert |-> Alert(tk[k]).id] \in errors'
               /\ ~MessageSent
               /\ tk'[k].pc \in {"eval", "idle"}
               /\ tk'[k].pc = "eval" => tk'[k].i = tk[k].i + 1
     ]_vars

\* one minute after a tick fired the 3% alert, whose message failed, and the
\* 8% alert, whose message was never handed over, a run has passed both at a
\* drop of 8% and wrote nothing
C8_Witness ==
  \E k \in Slots :
    /\ tk[k].pc = "eval" /\ tk[k].i = 3
    /\ PriceOf(tk[k].resp, "btc") = 92
    /\ \A r \in Baselines("btc", 5, now) : r.price = 100
    /\ \E n \in SentCalls :
         /\ n.alert = 1 /\ n.status = "failed"
         /\ ParseDate(alertLogs[n.logId].triggered_at) = now - 1
    /\ \E l \in LogRows :
         /\ l.alertConfigId = 2
         /\ ParseDate(l.triggered_at) = now - 1
         /\ ~\E n \in SentCalls : n.logId = l.id
    /\ Cardinality({l \in LogRows : l.alertConfigId \in {1, 2}}) = 2

\* C9: the trigger-log entry of a firing whose message sendMessage delivered
\* is marked delivered (sent = true); the entry of a firing whose delivery
\* failed keeps sent = false.
C9_DeliveredIsMarked ==
  \A n \in SentCalls :
    /\ n.status = "ok" => alertLogs[n.logId].sent
    /\ n.status = "failed" => ~alertLogs[n.logId].sent

\* C10: when a run leaves the loop that saves the samples, every priced asset
\* whose write did not fail has its sample recorded (each missing sample is
\* one failed write), and the run goes on to evaluate the alerts.
C10_SaveFailureIsolated ==
  [][\A k \in Slots :
       (tk[k].pc = "save" /\ Moves(k)) =>
         /\ Len(tk[k].resp) - (Len(priceHistory') - Len(priceHistory))
              <= nFaults' - nFaults
         /\ tk'[k].pc = "eval"
    ]_vars

\* the samples a step appended to price_history
NewSamples == SubSeq(priceHistory', Len(priceHistory) + 1, Len(priceHistory'))

FailedFetches == {e.tick : e \in {x \in errors : x.where = "getCurrentPrices"}}

\* C12: a run whose getCurrentPrices fails is over at once: the step records
\* no sample, writes no trigger-log entry, sends nothing and leaves the store
\* and the schedule as they were, so that the next tick starts as after any
\* other tick; the error is logged by checkPriceChanges and does not leave
\* it; the run is never seen again (no retry, no alert evaluated, no entry
\* and no message of that tick).
C12_FetchFailureAbortsTick ==
  /\ [](\A t \in FailedFetches :
          /\ [where |-> "checkPriceChanges", tick |-> t, alert |-> 0] \in errors
          /\ ~\E k \in Slots : tk[k].id = t
          /\ ~\E l \in LogRows : l.tick = t
          /\ ~\E n \in SentCalls : n.tick = t
          /\ ~\E e \in errors : e.tick = t /\ e.alert # 0)
  /\ [][\A k \in Slots :
          (tk[k].pc = "fetch" /\ tk[k].id \in FailedFetches') =>
            /\ tk'[k] = IdleSlot
            /\ running' = 0
            /\ UNCHANGED <<now, lastFire, users, alerts, priceHistory,
                           alertLogs, sent, nTicks>>
     ]_vars

\* the fetch of the first tick failed and left nothing behind; the second
\* tick ran and fired the 3% alert against the baseline of the earlier run
C12_Witness ==
  /\ 1 \in FailedFetches
  /\ \E l \in LogRows : l.tick = 2 /\ l.alertConfigId = 1 /\ l.oldPrice = 100
  /\ \E n \in SentCalls : n.tick = 2 /\ n.status = "ok"
  /\ nTicks = 2
  /\ ~\E r \in SeqToSet(priceHistory) : ParseDate(r.timestamp) = lastFire - 1

\* the response of the price source has no entry for the asset
Omitted(resp, cryptoId) == ~\E j \in 1..Len(resp) : resp[j][1] = cryptoId

\* what the code asks of an alert with a price before it decides to trigger
Triggerable(k) ==
  LET a == Alert(tk[k])
      history == getPriceHistory(priceHistory, a.cryptoId, a.timeframeMinutes, now)
  IN /\ getRecentAlertLogs(alertLogs, a.id, ALERT_COOLDOWN_MINUTES, now) = {}
     /\ history # {}
     /\ \A r \in OldestRows(history) :
          PctAtMost(PriceOf(tk[k].resp, a.cryptoId), r.price, a.thresholdPercentage)

\* C13: when the response omits an asset, no sample is recorded for it and
\* every alert on it is passed over (no trigger-log entry, no message), while
\* the run still reaches every alert on an asset with a price: it leaves out
\* no alert of its list, and an alert with a price that is to trigger does.
C13_OmittedAssetSkipped ==
  [][\A k \in Slots :
       /\ (tk[k].pc = "save" /\ Moves(k)) =>
            \A n \in 1..Len(NewSamples) : ~Omitted(tk[k].resp, NewSamples[n].cryptoId)
       /\ (tk[k].pc = "eval" /\ Moves(k)
             /\ Omitted(tk[k].resp, Alert(tk[k]).cryptoId)) =>
            /\ PassesOver(k)
            /\ errors' = errors
       /\ (LogWritten /\ NewLog.tick = tk[k].id) =>
            ~Omitted(tk[k].resp, Alert(tk[k]).cryptoId)
       /\ (MessageSent /\ NewMessage.tick = tk[k].id) =>
            ~Omitted(tk[k].resp, Alert(tk[k]).cryptoId)
       /\ (tk[k].pc \in {"save", "eval"} /\ Moves(k) /\ nFaults' = nFaults) =>
            \/ tk'[k].pc = "eval" /\ tk'[k].i = tk[k].i + 1
            \/ tk'[k].pc = "reread" /\ tk'[k].i = tk[k].i
            \/ tk'[k].pc = "idle" /\ tk[k].i = Len(tk[k].queue)
       /\ (tk[k].pc = "eval" /\ Moves(k) /\ nFaults' = nFaults
             /\ ~Omitted(tk[k].resp, Alert(tk[k]).cryptoId) /\ Triggerable(k)) =>
            DecidesToTrigger(k)
    ]_vars

\* a run whose response left out eth fired the 3% alert of btc and has come
\* to the alert of eth; the history holds the sample of btc and none of eth
C13_Witness ==
  \E k \in Slots :
    /\ tk[k].pc = "eval" /\ tk[k].i = 3
    /\ Alert(tk[k]).cryptoId = "eth"
    /\ Omitted(tk[k].resp, "eth") /\ ~Omitted(tk[k].resp, "btc")
    /\ \E l \in LogRows : l.tick = tk[k].id /\ l.alertConfigId = 1
    /\ tk[k].id = 1 /\ ~tk[k].late
    /\ \E r \in SeqToSet(priceHistory) :
         r.cryptoId = "btc" /\ ParseDate(r.timestamp) = lastFire
    /\ ~\E r \in SeqToSet(priceHistory) :
         r.cryptoId = "eth" /\ ParseDate(r.timestamp) = lastFire

\* the stages of a run that belong to one alert
AlertStages == {"eval", "reread", "log", "coin", "send"}

\* C14: an error in the evaluation or the firing of one alert (cooldown or
\* history query, trigger-log write, coin or owner lookup, delivery) ends the
\* work on that alert only: the run goes on with the next alert of its list,
\* with the prices it fetched, and ends only behind the last alert.
C14_AlertErrorsIsolated ==
  [][\A k \in Slots :
       (tk[k].pc \in AlertStages /\ Moves(k)
          /\ (nFaults' # nFaults \/ errors' # errors)) =>
         /\ \E e \in errors' \ errors :
              e.tick = tk[k].id /\ e.alert = Alert(tk[k]).id
         /\ IF tk[k].i < Len(tk[k].queue)
            THEN /\ tk'[k].pc = "eval"
                 /\ tk'[k].i = tk[k].i + 1
                 /\ tk'[k].id = tk[k].id
                 /\ tk'[k].queue = tk[k].queue
                 /\ tk'[k].resp = tk[k].resp
                 /\ running' = k
            ELSE tk'[k].pc = "idle"
    ]_vars

\* in one tick the message of the 3% alert was rejected, the 8% alert fired
\* all the same and its owner was not found, and the run has come to the
\* alert of eth
C14_Witness ==
  \E k \in Slots :
    /\ tk[k].pc = "eval" /\ tk[k].i = 3
    /\ [where |-> "sendMessage", tick |-> tk[k].id, alert |-> 1] \in errors
    /\ [where |-> "userNotFound", tick |-> tk[k].id, alert |-> 2] \in errors
    /\ \E l \in LogRows : l.tick = tk[k].id /\ l.alertConfigId = 2

\* the prices of the baseline samples of the alert a run is at
BaselinePrices(k) ==
  {r.price : r \in Baselines(Alert(tk[k]).cryptoId,
                             Alert(tk[k]).timeframeMinutes, now)}

\* C15: the baseline of an alert is the oldest sample of its asset with a
\* timestamp >= now - timeframeMinutes: the decision of shouldTriggerAlert is
\* the comparison of the current price with that sample, and the old price
\* handed to triggerAlert and written to the trigger log is its price; a
\* sample older than the window, or a newer one inside it, is never used.
C15_BaselineOldestInWindow ==
  [][\A k \in Slots :
       /\ DecidesToTrigger(k) =>
            \E b \in BaselinePrices(k) :
              PctAtMost(PriceOf(tk[k].resp, Alert(tk[k]).cryptoId), b,
                        Alert(tk[k]).thresholdPercentage)
       /\ (PassesOver(k) /\ nFaults' = nFaults
             /\ PriceOf(tk[k].resp, Alert(tk[k]).cryptoId) # NoPrice
             /\ getRecentAlertLogs(alertLogs, Alert(tk[k]).id,
                                   ALERT_COOLDOWN_MINUTES, now) = {}) =>
            \A b \in BaselinePrices(k) :
              ~PctAtMost(PriceOf(tk[k].resp, Alert(tk[k]).cryptoId), b,
                         Alert(tk[k]).thresholdPercentage)
       /\ (tk[k].pc = "reread" /\ tk'[k].pc = "log") =>
            tk'[k].oldPrice \in BaselinePrices(k)
       /\ (LogWritten /\ NewLog.tick = tk[k].id) =>
            NewLog.oldPrice \in BaselinePrices(k)
    ]_vars

\* just after midnight an alert with a window of 5 minutes fired against the
\* sample of 100 stored 5 minutes ago, although an older sample of 95 and a
\* newer sample of 95 are stored as well
C15_Witness ==
  \E k \in Slots :
    /\ tk[k].pc = "coin"
    /\ now > MinutesPerDay
    /\ Alert(tk[k]).timeframeMinutes = 5
    /\ alertLogs[tk[k].logId].oldPrice = 100
    /\ alertLogs[tk[k].logId].newPrice = 95
    /\ \E r, q, o \in SeqToSet(priceHistory) :
         /\ r.cryptoId = "btc" /\ q.cryptoId = "btc" /\ o.cryptoId = "btc"
         /\ ParseDate(o.timestamp) = now - 7 /\ o.price = 95
         /\ ParseDate(r.timestamp) = now - 5 /\ r.price = 100
         /\ ParseDate(q.timestamp) = now - 3 /\ q.price = 95

\* C16: an alert whose asset has no sample inside its window is passed over:
\* shouldTriggerAlert returns false, no trigger-log entry is written, no
\* message is sent and no error is recorded.
C16_NoSampleNoTrigger ==
  [][\A k \in Slots :
       (tk[k].pc = "eval" /\ Moves(k) /\ nFaults' = nFaults
          /\ InWindow(Alert(tk[k]).cryptoId, Alert(tk[k]).timeframeMinutes, now) = {}) =>
         /\ PassesOver(k)
         /\ ~LogWritten
         /\ ~MessageSent
         /\ errors' = errors
    ]_vars

\* the run is over and has written nothing: the only samples of btc, one of
\* them of 100, are older than the window of 2 minutes
C16_Witness ==
  /\ InFlight = {}
  /\ alerts[1].timeframeMinutes = 2
  /\ InWindow("btc", 2, now) = {}
  /\ \E r \in SeqToSet(priceHistory) :
       r.cryptoId = "btc" /\ r.price = 100 /\ ParseDate(r.timestamp) = now - 3
  /\ alertLogs = <<>> /\ sent = <<>> /\ errors = {}

\* the lookup of triggerAlert finds a row for the alert: a user whose
\* telegram id is the alert's userId
OwnerResolved(a) == \E u \in users : u.telegramId = a.userId

\* C17: when the owner of a triggered alert is not found, the error is
\* logged, sendMessage is not called for the alert, and the run goes on with
\* the next alert of its list.
C17_OwnerNotFound ==
  /\ [](\A n \in SentCalls : OwnerResolved(alerts[n.alert]))
  /\ [][\A k \in Slots :
          (tk[k].pc = "coin" /\ Moves(k) /\ ~OwnerResolved(Alert(tk[k]))) =>
            /\ ~MessageSent
            /\ \E e \in errors' \ errors :
                 e.tick = tk[k].id /\ e.alert = Alert(tk[k]).id
            /\ IF tk[k].i < Len(tk[k].queue)
               THEN tk'[k].pc = "eval" /\ tk'[k].i = tk[k].i + 1
                      /\ tk'[k].id = tk[k].id
               ELSE tk'[k].pc = "idle"
     ]_vars

\* a tick is over in which the 3% alert was delivered and the 8% alert fired
\* without an owner to be found: logged, and no message for it
C17_Witness ==
  /\ InFlight = {}
  /\ \E e \in errors :
       /\ e.where = "userNotFound" /\ e.alert = 2
       /\ \E l \in LogRows : l.tick = e.tick /\ l.alertConfigId = 2
       /\ \E n \in SentCalls : n.tick = e.tick /\ n.alert = 1 /\ n.status = "ok"
       /\ \E r \in SeqToSet(priceHistory) :
            r.cryptoId = "eth" /\ ParseDate(r.timestamp) = lastFire
  /\ ~\E n \in SentCalls : n.alert = 2

\* the alert is in the table and paused / in the table and active
Paused(id) == id \in DOMAIN alerts /\ ~alerts[id].isActive
Active(id) == id \in DOMAIN alerts /\ alerts[id].isActive

\* C18: the toggle moves an alert both ways: as long as the user keeps
\* pressing the toggle button, an active alert gets paused and a paused
\* alert gets active again (unless it is deleted).
C18_ToggleBothWays ==
  \A id \in 1..3 :
    /\ Active(id) ~> ~Active(id)
    /\ Paused(id) ~> ~Paused(id)

\* the ids of the alerts a run has loaded
Loaded(k) == {tk[k].queue[n].id : n \in 1..Len(tk[k].queue)}

\* C19: an alert that is inactive when a run loads the active alerts is not
\* part of that run: the run asks for no price on its behalf (the ids it
\* asks for are the assets of the active alerts) and writes no trigger-log
\* entry and sends no message for it; no step of a run changes or removes an
\* alert.
C19_InactiveExcluded ==
  [][\A k \in Slots :
       /\ (tk[k].pc = "idle" /\ tk'[k].pc = "fetch") =>
            /\ \A id \in DOMAIN alerts : Paused(id) => id \notin Loaded(k)'
            /\ \A id \in DOMAIN alerts : Active(id) => id \in Loaded(k)'
            /\ SeqToSet(CryptoIds(tk'[k].queue)) =
                 {alerts[id].cryptoId : id \in {a \in DOMAIN alerts : Active(a)}}
       /\ (tk[k].pc = "fetch" /\ tk'[k].pc = "save") =>
            \A j \in 1..Len(tk'[k].resp) :
              tk'[k].resp[j][1] \in SeqToSet(CryptoIds(tk[k].queue))
       /\ (LogWritten /\ NewLog.tick = tk[k].id) =>
            NewLog.alertConfigId \in Loaded(k)
       /\ (MessageSent /\ NewMessage.tick = tk[k].id) =>
            NewMessage.alert \in Loaded(k)
       /\ Moves(k) => alerts' = alerts
    ]_vars

\* the 3% alert was paused before the tick: at a drop of 8% the run fired the
\* 8% alert only, and the paused alert is still in the table
C19_Witness ==
  /\ InFlight = {} /\ nTicks = MaxTicks /\ nFaults = 0
  /\ Paused(1)
  /\ \E l \in LogRows : l.alertConfigId = 2 /\ l.newPrice = 92
  /\ ~\E l \in LogRows : l.alertConfigId = 1
  /\ ~\E n \in SentCalls : n.alert = 1

\* C20: deleting an alert removes its trigger-log entries and leaves the
\* entries of the other alerts as they are; no entry refers to an alert that
\* is not in the table, and none is written for one later.
C20_DeleteCascades ==
  /\ [](\A l \in LogRows :
          l.alertConfigId # DeletedRow => l.alertConfigId \in DOMAIN alerts)
  /\ [][\A id \in DOMAIN alerts :
          id \notin DOMAIN alerts' =>
            /\ Len(alertLogs') = Len(alertLogs)
            /\ \A n \in 1..Len(alertLogs) :
                 IF alertLogs[n].alertConfigId = id
                 THEN alertLogs'[n].alertConfigId # id
                 ELSE alertLogs'[n] = alertLogs[n]
            /\ \A other \in DOMAIN alerts \ {id} :
                 other \in DOMAIN alerts' /\ alerts'[other] = alerts[other]
     ]_vars

\* both btc alerts fired, then the 3% alert was deleted: its entry is gone
\* and the entry of the 8% alert is still there
C20_Witness ==
  /\ 1 \notin DOMAIN alerts
  /\ 2 \in DOMAIN alerts
  /\ \E n \in SentCalls :
       /\ n.alert = 1
       /\ alertLogs[n.logId].alertConfigId = DeletedRow
  /\ \E l \in LogRows : l.alertConfigId = 2
  /\ ~\E l \in LogRows : l.alertConfigId = 1

\* C21: price_history is append-only and time-ordered: every step leaves the
\* samples stored before it as they were, in their places, and for each
\* asset the timestamps do not decrease in insertion order.
C21_HistoryAppendOnly ==
  /\ [](\A i, j \in 1..Len(priceHistory) :
          (i < j /\ priceHistory[i].cryptoId = priceHistory[j].cryptoId) =>
            /\ ParseDate(priceHistory[i].timestamp) <= ParseDate(priceHistory[j].timestamp)
            /\ priceHistory[i].id < priceHistory[j].id)
  /\ [][/\ Len(priceHistory') >= Len(priceHistory)
        /\ \A n \in 1..Len(priceHistory) : priceHistory'[n] = priceHistory[n]
     ]_vars

\* three ticks, the first before midnight, have each stored a sample of btc
C21_Witness ==
  /\ Cardinality({r \in SeqToSet(priceHistory) : r.cryptoId = "btc"}) >= 4
  /\ \E r, q \in SeqToSet(priceHistory) :
       /\ r.cryptoId = "btc" /\ q.cryptoId = "btc"
       /\ r.timestamp[1] < q.timestamp[1]
       /\ r.price # q.price

\* C22: a step of a run of checkPriceChanges leaves alert_configs and users
\* as they are; what it writes to the store are appended samples and
\* appended trigger-log entries, the rows stored before staying untouched.
C22_TickWritesOnlyAppends ==
  [][\A k \in Slots :
       Moves(k) =>
         /\ alerts' = alerts
         /\ users' = users
         /\ Len(priceHistory') >= Len(priceHistory)
         /\ \A n \in 1..Len(priceHistory) : priceHistory'[n] = priceHistory[n]
         /\ Len(alertLogs') >= Len(alertLogs)
         /\ \A n \in 1..Len(alertLogs) : alertLogs'[n] = alertLogs[n]
    ]_vars

\* a tick that fired and delivered the 3% alert is over, and the three
\* alerts are in the table as they were, all active
C22_Witness ==
  /\ InFlight = {} /\ nTicks = MaxTicks
  /\ \E n \in SentCalls : n.alert = 1 /\ n.status = "ok"
  /\ Len(priceHistory) > 2
  /\ DOMAIN alerts = 1..3
  /\ \A id \in 1..3 : alerts[id].isActive /\ alerts[id].timeframeMinutes = 5
  /\ alerts[1].thresholdPercentage = 3 /\ alerts[1].cryptoId = "btc"
  /\ alerts[1].userId = 2

\* a step of a run, or a write to the store
StoreInUse ==
  \/ \E k \in Slots : Moves(k)
  \/ <<users, alerts, priceHistory, alertLogs>>' # <<users, alerts, priceHistory, alertLogs>>

\* C23: shutdown stops the cron task before anything else, so no run of
\* checkPriceChanges starts once shutdown has begun; a run in flight goes on
\* while the bot is being stopped and is abandoned when the process exits;
\* the store is closed only as the process exits, and nothing works on a
\* closed store.
C23_ShutdownOrder ==
  /\ [](proc.pc # "up" => ~proc.cron)
  /\ [](proc.db = "closed" => ~proc.alive /\ proc.bot = "stopped")
  /\ [][/\ \A k \in Slots :
             (tk[k].pc = "idle" /\ tk'[k].pc # "idle") => proc.pc = "up"
        /\ (proc.pc = "up" /\ proc'.pc # "up") =>
             /\ ~proc'.cron
             /\ proc'.db = "open" /\ proc'.alive
             /\ ~StoreInUse
        /\ StoreInUse => proc.db = "open" /\ proc.alive
     ]_vars

\* the process has exited with the store closed while a run was waiting for
\* Telegram: the run is abandoned where it was
C23_Witness ==
  /\ ~proc.alive /\ proc.db = "closed" /\ ~proc.cron
  /\ \E k \in Slots : tk[k].pc = "send" /\ InFlight = {k}

\* the alert a run is at has never fired: no trigger-log entry names it
NeverFired(k) == \A l \in LogRows : l.alertConfigId # Alert(tk[k]).id

\* C25: alerts that share an asset are decided independently in a tick.  An
\* alert that has never fired, reached with a current price in hand, is
\* fired exactly when a baseline sample meets its own threshold, whatever
\* the run did with the other alerts of the asset; so with thresholds of 3%
\* and 8%, a drop from 100 to 95 writes a trigger log for the first and
\* never for the second.
C25_SharedAssetIndependent ==
  /\ [][\A k \in Slots :
          LET a == Alert(tk[k])
              cur == PriceOf(tk[k].resp, a.cryptoId)
          IN (tk[k].pc = "eval" /\ Moves(k) /\ nFaults' = nFaults
                /\ cur # NoPrice /\ NeverFired(k)) =>
               /\ DecidesToTrigger(k) =>
                    \E b \in BaselinePrices(k) :
                      PctAtMost(cur, b, a.thresholdPercentage)
               /\ PassesOver(k) =>
                    \/ BaselinePrices(k) = {}
                    \/ \E b \in BaselinePrices(k) :
                         ~PctAtMost(cur, b, a.thresholdPercentage)
       ]_vars
  /\ [](\A l \in LogRows :
          (l.oldPrice = 100 /\ l.newPrice = 95) =>
            alerts[l.alertConfigId].thresholdPercentage # 8)

\* a run with the price of 95 against the baseline of 100 has fired the
\* alert of 3%, has passed over the alert of 8% on the same asset and is at
\* the next asset
C25_Witness ==
  \E k \in Slots :
    /\ tk[k].pc = "eval" /\ Alert(tk[k]).id = 3
    /\ PriceOf(tk[k].resp, "btc") = 95
    /\ nFaults = 0
    /\ \E l \in LogRows :
         /\ l.tick = tk[k].id /\ l.alertConfigId = 1
         /\ l.oldPrice = 100 /\ l.newPrice = 95
    /\ \E m \in SentCalls : m.tick = tk[k].id /\ m.alert = 1 /\ m.status = "ok"
    /\ \A l \in LogRows : l.tick = tk[k].id => l.alertConfigId # 2
    /\ alerts[1].cryptoId = alerts[2].cryptoId
    /\ alerts[1].thresholdPercentage = 3 /\ alerts[2].thresholdPercentage = 8

Handled(u) == upd[u].pc = "mw" /\ upd'[u].pc = "idle"

\* the text is a decimal numeral from its first character to its last
IsNumeral(text) ==
  LET body == Unsigned(text)
      dots == {i \in 1..Len(body) : body[i] = "."}
  IN /\ \E i \in 1..Len(body) : IsDigit(body[i])
     /\ \A i \in 1..Len(body) : IsDigit(body[i]) \/ body[i] = "."
     /\ Cardinality(dots) <= 1
\* the number a text denotes, if it denotes one
NumberOf(text) == IF IsNumeral(text) THEN parseFloat(text) ELSE NaN
\* lo <= v <= hi for a number v and the fractions lo and hi
Between(v, lo, hi) ==
  /\ ~isNaN(v)
  /\ lo[1] * v[2] <= v[1] * lo[2]
  /\ v[1] * hi[2] <= hi[1] * v[2]

\* C24: every alert created through the wizard has a threshold in [0.1, 100]
\* and a window in [5, 1440]; a text that is not a number, or that denotes a
\* number outside the bounds of its step, is rejected: no alert is created
\* and the wizard stays on the step.
C24_WizardBounds ==
  /\ [](\A i \in DOMAIN alerts :
          /\ Between(alerts[i].thresholdPercentage, <<1, 10>>, <<100, 1>>)
          /\ Between(<<alerts[i].timeframeMinutes, 1>>, <<5, 1>>, <<1440, 1>>))
  /\ [][\A u \in UpdSlots :
          LET config == session[upd[u].from]
              v == NumberOf(upd[u].text)
          IN (Handled(u) /\ upd[u].kind = "text" /\ nFaults' = nFaults) =>
               /\ (config.step = "threshold"
                     /\ ~Between(v, <<1, 10>>, <<100, 1>>)) =>
                    session' = session /\ alerts' = alerts
               /\ (config.step = "timeframe"
                     /\ ~Between(v, <<5, 1>>, <<1440, 1>>)) =>
                    session' = session /\ alerts' = alerts
       ]_vars

\* C28: createAlert for a registered user and an asset stores the alert with
\* the given owner, asset, threshold and window, and getAlertsByUserId(owner)
\* then returns the alerts created for the owner: when the last step of the
\* wizard accepts the window and calls createAlert, the owner has one alert
\* more than before, and it carries what was given.  No row of
\* cryptocurrencies is needed for that.
C28_CreateThenList ==
  [][\A u \in UpdSlots :
       LET from == upd[u].from
           config == session[from]
       IN (Handled(u) /\ upd[u].kind = "text" /\ nFaults' = nFaults
             /\ config.step = "timeframe" /\ session'[from].step = "undefined") =>
            \E owner \in getUserByTelegramId(users', from) :
              LET before == getAlertsByUserId(alerts, owner.id)
                  after == getAlertsByUserId(alerts', owner.id)
              IN /\ before \subseteq after
                 /\ Cardinality(after) = Cardinality(before) + 1
                 /\ \A a \in after \ before :
                      /\ a.cryptoId = config.crypto
                      /\ a.thresholdPercentage = config.threshold
                      /\ a.timeframeMinutes = parseInt(upd[u].text)[1]
                      /\ a.isActive
    ]_vars

\* C29: createUser(telegramId, username) followed by
\* getUserByTelegramId(telegramId) returns a user with that telegram id and
\* username, and at every moment at most one row of users holds a given
\* telegram id, also when the middleware handles two updates of a new
\* sender at a time.
C29_OneUserPerTelegramId ==
  /\ [](\A a, b \in users : a.telegramId = b.telegramId => a = b)
  /\ [][\A u \in UpdSlots :
          (Handled(u) /\ users' # users) =>
            /\ getUserByTelegramId(users', upd[u].from) # {}
            /\ \A r \in getUserByTelegramId(users', upd[u].from) :
                 r.telegramId = upd[u].from /\ r.username = upd[u].username
       ]_vars

\* two updates of a new sender were both past the lookup; one registered the
\* sender, the insert of the other was refused, and one row is stored
C29_Witness ==
  /\ [where |-> "middleware", tick |-> 0, alert |-> 0] \in errors
  /\ Cardinality(users) = 1
  /\ \E r \in users : r.telegramId = 5

\* the coins of a list that a query names, without regard to case
SymbolMatches(coins, q) ==
  {coins[i] : i \in {j \in 1..Len(coins) :
                       toLowerCase(coins[j].symbol) = toLowerCase(q)}}
NameMatches(coins, q) ==
  {coins[i] : i \in {j \in 1..Len(coins) :
                       \/ includes(toLowerCase(coins[j].name), toLowerCase(q))
                       \/ includes(toLowerCase(coins[j].id), toLowerCase(q))}}

\* C30: findCoinBySymbol(q) returns a coin whose symbol equals q without
\* regard to case whenever the list holds one; only when no symbol matches
\* does it return a coin whose name or id contains q; it returns null when
\* there is neither.  The first step of the wizard keeps the id of the coin
\* returned, and stays as it is on null.
C30_SymbolBeforeName ==
  [][\A u \in UpdSlots :
       LET from == upd[u].from
           q == upd[u].text
           coins == coinsCache'.coins
           kept == {c \in SeqToSet(coins) :
                      /\ session'[from].step = "threshold"
                      /\ session'[from].crypto = c.id}
       IN (Handled(u) /\ upd[u].kind = "text" /\ nFaults' = nFaults
             /\ session[from].step = "crypto") =>
            IF SymbolMatches(coins, q) # {}
            THEN kept # {} /\ kept \subseteq SymbolMatches(coins, q)
            ELSE IF NameMatches(coins, q) # {}
            THEN kept # {} /\ kept \subseteq NameMatches(coins, q)
            ELSE session' = session
    ]_vars

\* on the list of the coins ab (symbol a, name Ab) and b (symbol ab, name B),
\* in that order, the wizard kept the coin b: the query named its symbol,
\* though the id of the coin before it contains the query
C30_Witness ==
  /\ Len(coinsCache.coins) = 2
  /\ coinsCache.coins[1].id = <<"a", "b">>
  /\ coinsCache.coins[2].symbol = <<"a", "b">>
  /\ session[5].step = "threshold"
  /\ session[5].crypto = coinsCache.coins[2].id

\* C27: while the application runs, a timer fires the tick on a fixed
\* interval: once start() has the Telegram bot polling, the price-monitoring
\* schedule is set up, with the bot still running; and the minutes that the
\* schedule of an interval n matches are exactly n apart, for the values of
\* PRICE_CHECK_INTERVAL_MINUTES looked at.
C27_ScheduleWhileRunning ==
  /\ (proc.bot = "polling") ~> (proc.cron \/ ~proc.alive)
  /\ [](proc.cron => proc.bot = "polling")
  /\ [](\A n \in Intervals : \A t \in 0..(2 * 60) :
          CronMatchesEvery(n, t) =>
            /\ CronMatchesEvery(n, t + n)
            /\ \A d \in 1..(n - 1) : ~CronMatchesEvery(n, t + d))

\* C31: for every user, in any interval of one minute at most
\* MAX_COMMANDS_PER_MINUTE updates of that user pass the rate limiter and
\* reach a handler (it is enough to look at the intervals that begin with a
\* handled update)
C31_AtMostPerMinute ==
  \A c \in DOMAIN handled :
    \A j \in 1..Len(handled[c]) :
      Cardinality({i \in 1..Len(handled[c]) :
                     /\ handled[c][j] <= handled[c][i]
                     /\ handled[c][i] < handled[c][j] + Parts})
        <= MAX_COMMANDS_PER_MINUTE

\* C31, the rest of it: an update that the rate limiter rejects changes
\* neither the counter nor the reset time of its sender, and no update changes
\* the counter of another user
C31_CountersOfOthers ==
  [][\A u \in UpdSlots :
       Handled(u) =>
         /\ ~checkRateLimit(upd[u].from) => userCommandCounts' = userCommandCounts
         /\ \A c \in DOMAIN userCommandCounts :
              c # upd[u].from => userCommandCounts'[c] = userCommandCounts[c]]_vars

\* the owner of an alert: the user whose id the wizard stored as its userId
Owners(a) == {u \in users : u.id = a.userId}

\* C32: every notification of a triggered alert is sent to the Telegram
\* account of the user who owns the alert, never to another user; and when the
\* owner exists, the lookup of triggerAlert finds them: the step that follows
\* getCoinInfo calls sendMessage with the owner's telegram id.
C32_NotifiesOwner ==
  /\ [](\A n \in SentCalls :
          n.alert \in DOMAIN alerts =>
            \E u \in Owners(alerts[n.alert]) : u.telegramId = n.to)
  /\ [][\A k \in Slots :
          (tk[k].pc = "coin" /\ Moves(k) /\ Owners(Alert(tk[k])) # {}) =>
            /\ MessageSent
            /\ \E u \in Owners(Alert(tk[k])) : sent'[Len(sent')].to = u.telegramId
     ]_vars

\* C33: every trigger-log entry is consistent with the decision that produced
\* it: its priceChange is (newPrice - oldPrice) / oldPrice * 100 for the
\* prices it records, and it is a drop of at least the threshold of its alert,
\* also when the clock advances between the history query of
\* shouldTriggerAlert and the one that follows it.
C33_LogMatchesDecision ==
  \A l \in LogRows :
    l.alertConfigId \in DOMAIN alerts =>
      /\ l.priceChange = PriceChange(l.newPrice, l.oldPrice)
      /\ DropReached(l.priceChange, alerts[l.alertConfigId].thresholdPercentage)

\* C34: inside a tick, the baseline query of an alert whose asset returned a
\* price is never empty
C34_BaselineNeverEmpty ==
  \A k \in Slots :
    (running = k /\ tk[k].pc = "eval"
       /\ PriceOf(tk[k].resp, Alert(tk[k]).cryptoId) # NoPrice) =>
      InWindow(Alert(tk[k]).cryptoId, Alert(tk[k]).timeframeMinutes, now) # {}

\* C34, the rest of it: an alert whose window holds no sample older than the
\* one its run recorded does not fire
C34_FirstSampleNoFire ==
  [][\A k \in Slots :
       (tk[k].pc = "eval" /\ Moves(k)
          /\ \A r \in InWindow(Alert(tk[k]).cryptoId,
                               Alert(tk[k]).timeframeMinutes, now) :
               r.price = PriceOf(tk[k].resp, Alert(tk[k]).cryptoId)) =>
         PassesOver(k) /\ ~LogWritten
    ]_vars

\* C35: no trigger-log entry is written and no message is sent for an alert
\* that is paused or deleted at the moment of the write or of the call, also
\* when the alert is paused or deleted while a run that loaded it is in flight
C35_NoFiringOncePaused ==
  [][/\ LogWritten => Active(NewLog.alertConfigId)
     /\ MessageSent => Active(NewMessage.alert)
    ]_vars

\* C36: an alert is deleted or toggled only by a callback query of the user
\* who owns it: a delete_alert_<id> or toggle_alert_<id> query of any other
\* user leaves the alert as it is
C36_OnlyOwnerChanges ==
  [][\A u \in UpdSlots :
       (Handled(u) /\ upd[u].kind \in {"delete_alert_", "toggle_alert_"}) =>
         \A id \in DOMAIN alerts :
           (id \notin DOMAIN alerts' \/ alerts'[id] # alerts[id]) =>
             \E owner \in Owners(alerts[id]) : owner.telegramId = upd[u].from
    ]_vars

\* the coins that GET /coins/list answers with
ListedIds == {coinsCache.listed[i].id : i \in 1..Len(coinsCache.listed)}

\* one alert more than before, for the sender, with what the wizard holds
CreatesOne(u, timeframe) ==
  \E owner \in getUserByTelegramId(users', upd[u].from) :
    \E id \in DOMAIN alerts' \ DOMAIN alerts :
      /\ DOMAIN alerts' = DOMAIN alerts \cup {id}
      /\ \A i \in DOMAIN alerts : alerts'[i] = alerts[i]
      /\ alerts'[id].userId = owner.id
      /\ alerts'[id].cryptoId = session[upd[u].from].crypto
      /\ alerts'[id].thresholdPercentage = session[upd[u].from].threshold
      /\ alerts'[id].timeframeMinutes = timeframe[1]

\* what the wizard does with a handled update, given which texts are valid
\* thresholds and windows and what a completed creation stores
WizardFollows(u, okThreshold, okTimeframe, stores) ==
  LET from == upd[u].from
      text == upd[u].text
      before == session[from]
      after == session'[from]
      command == upd[u].kind = "command"
  IN /\ \A c \in DOMAIN session \ {from} : session'[c] = session[c]
     /\ alerts' # alerts =>
          ~command /\ nFaults' = nFaults /\ before.step = "timeframe" /\ okTimeframe
     /\ command /\ text = <<"/", "c">> => after = [NoConfig EXCEPT !.step = "crypto"]
     /\ command /\ text = <<"/", "x">> => after = NoConfig
     /\ ~command /\ nFaults' # nFaults => after = NoConfig
     /\ (~command /\ nFaults' = nFaults) =>
          CASE before.step = "undefined" -> after = before
            [] before.step = "crypto" ->
                 \/ after = before
                 \/ /\ after = [before EXCEPT !.step = "threshold",
                                              !.crypto = after.crypto]
                    /\ after.crypto \in ListedIds
            [] before.step = "threshold" ->
                 IF okThreshold
                 THEN after = [before EXCEPT !.step = "timeframe",
                                             !.threshold = parseFloat(text)]
                 ELSE after = before
            [] before.step = "timeframe" ->
                 IF okTimeframe
                 THEN after = NoConfig /\ stores
                 ELSE after = before

\* C37: the wizard is a state machine per user that advances only from the
\* asset to the threshold to the window: one alert is created, and only after
\* a valid asset, then a valid threshold (a number from 0.1 to 100), then a
\* valid window (a number from 5 to 1440) were entered; an invalid input keeps
\* the step and the values entered; /cancel, a completed creation or an error
\* clears the session, so that later text creates no alert; /create puts the
\* wizard on its first step.
C37_WizardStateMachine ==
  [][\A u \in UpdSlots :
       Handled(u) /\ users' = Registered(u) /\ checkRateLimit(upd[u].from) =>
         WizardFollows(u,
                       Between(NumberOf(upd[u].text), <<1, 10>>, <<100, 1>>),
                       Between(NumberOf(upd[u].text), <<5, 1>>, <<1440, 1>>),
                       CreatesOne(u, parseInt(upd[u].text)))
    ]_vars

\* the same with the texts as the handler reads them (C24) and with the
\* creation as the store lets it through (C28)
C37_AsReadAndStored ==
  [][\A u \in UpdSlots :
       Handled(u) /\ users' = Registered(u) /\ checkRateLimit(upd[u].from) =>
         WizardFollows(u,
                       ~isNaN(parseFloat(upd[u].text))
                         /\ ~ThresholdOutOfRange(parseFloat(upd[u].text)),
                       ~isNaN(parseInt(upd[u].text))
                         /\ ~TimeframeOutOfRange(parseInt(upd[u].text)),
                       cryptocurrencies # {} => CreatesOne(u, parseInt(upd[u].text)))
    ]_vars

\* a call of getSupportedCoins begins / a request for the coin list ends
CallBegins(u) ==
  /\ upd[u].pc = "mw" /\ upd'[u].pc # "mw"
  /\ upd[u].kind = "text"
  /\ session[upd[u].from].step = "crypto"
  /\ checkRateLimit(upd[u].from)
RequestEnds(u) == upd[u].pc = "coins" /\ upd'[u].pc = "idle"

\* C38: after a successful fetch of a non-empty coin list, every call of
\* getSupportedCoins in the hour that follows returns the cached list and
\* sends no request (the fetch sets the list and an expiry one hour ahead, no
\* step empties the list or moves the expiry back, and a call that finds a
\* list and an expiry ahead returns without a request); a failed fetch is
\* reported and leaves list and expiry as they were; of two calls that wait at
\* a time, each ends by storing its own complete response.
C38_CoinCache ==
  [][/\ \A u \in UpdSlots :
          /\ (CallBegins(u) /\ coinsCache.coins # <<>> /\ now < coinsCache.cacheExpiry) =>
               upd'[u].pc = "idle" /\ coinsCache' = coinsCache
          /\ (RequestEnds(u) /\ nFaults' = nFaults) =>
               /\ coinsCache'.coins = coinsCache.listed
               /\ coinsCache'.cacheExpiry = now + 60
          /\ (RequestEnds(u) /\ nFaults' # nFaults) =>
               /\ coinsCache' = coinsCache
               /\ \E e \in errors' : e.where = "alertConfigFlow"
               /\ session'[upd[u].from] = NoConfig
     /\ coinsCache.coins # <<>> =>
          /\ coinsCache'.coins \in CacheLists
          /\ coinsCache'.cacheExpiry >= coinsCache.cacheExpiry
     /\ <<coinsCache'.coins, coinsCache'.cacheExpiry>>
          # <<coinsCache.coins, coinsCache.cacheExpiry>> =>
          \E u \in UpdSlots : RequestEnds(u) /\ nFaults' = nFaults
    ]_vars

\* half an hour after a fetch the user has sent a text that was answered from
\* the cache: the expiry is still that of the fetch and no request is pending
C38_Witness ==
  /\ now = 12 * 60 + 30
  /\ coinsCache.coins # <<>>
  /\ coinsCache.cacheExpiry = 12 * 60 + 60
  /\ \E i \in 1..Len(handled[5]) : handled[5][i] = Instant
  /\ \A u \in UpdSlots : upd[u].pc = "idle"
  /\ session[5].step = "crypto"

\* two calls wait for the coin list at a time
C38_Overlap == \A u \in UpdSlots : upd[u].pc = "coins"

====
